---- MODULE Spec2Model ----
(***************************************************************************)
(* Model of the quantum state manager                                      *)
(* (scripts/quantum/quantum-state-manager.py): snapshot capture, checksum  *)
(* validation, the snapshot store with its backup rotation, the            *)
(* compatibility gate and the legacy migration.                            *)
(***************************************************************************)
EXTENDS Integers, Sequences, FiniteSets, TLC

(***************************************************************************)
(* Python values.  Every value is a record [t, v]: t is the Python type    *)
(* and v the payload.  Three kinds of str are kept symbolic, since their   *)
(* characters are never inspected: "isotime" (datetime.isoformat() of a    *)
(* clock reading), "sid" (f"{prefix}{int(time.time())}") and "md5" (the    *)
(* hex digest of a serialized text; MD5 is taken to be collision free on   *)
(* the values of the model).  A dict is a function from its (str) keys.    *)
(***************************************************************************)
PyNone == [t |-> "none", v |-> 0]
PyStr(s) == [t |-> "str", v |-> s]
PyInt(n) == [t |-> "int", v |-> n]
PyFloat(n) == [t |-> "float", v |-> n]
PyBool(b) == [t |-> "bool", v |-> b]
PyList(q) == [t |-> "list", v |-> q]
PyTuple(q) == [t |-> "tuple", v |-> q]
PyDict(f) == [t |-> "dict", v |-> f]
IsoTime(ticks) == [t |-> "isotime", v |-> ticks]
Sid(prefix, sec) == [t |-> "sid", v |-> <<prefix, sec>>]
EmptyList == PyList(<<>>)
EmptyDict == PyDict(<<>>)

\* the outcome of a call that raised instead of returning
Raised == [t |-> "raise", v |-> 0]

\* Python truth value of x, as used by `x or default`
Truthy(x) ==
  CASE x.t = "none" -> FALSE
    [] x.t \in {"list", "tuple"} -> Len(x.v) > 0
    [] x.t = "dict" -> DOMAIN x.v # {}
    [] x.t = "bool" -> x.v
    [] x.t \in {"int", "float"} -> x.v # 0
    [] x.t = "str" -> x.v # ""
    [] OTHER -> TRUE

\* x or d
Or(x, d) == IF Truthy(x) THEN x ELSE d

\* d.get(k, default)
Get(d, k, default) == IF k \in DOMAIN d.v THEN d.v[k] ELSE default

\* d.get(k)
GetN(d, k) == Get(d, k, PyNone)

\* the list [f(x) for x in q]
MapSeq(q, f(_)) == [i \in 1..Len(q) |-> f(q[i])]

(***************************************************************************)
(* Time.  clock counts ticks; int(time.time()) is the second the tick      *)
(* falls in.                                                               *)
(***************************************************************************)
TicksPerSec == 2
MaxClock == 5
Sec(ticks) == ticks \div TicksPerSec

(***************************************************************************)
(* json.dumps / json.dump: a list or a tuple is written as an array, a     *)
(* dict as an object (sort_keys orders the keys, which a mapping does not  *)
(* record), a scalar as its literal.  json.load reads an array back as a   *)
(* list and an object as a dict.                                           *)
(***************************************************************************)
RECURSIVE JsonDumps(_)
JsonDumps(x) ==
  CASE x.t \in {"list", "tuple"} ->
         [t |-> "array", v |-> [i \in 1..Len(x.v) |-> JsonDumps(x.v[i])]]
    [] x.t = "dict" ->
         [t |-> "object", v |-> [k \in DOMAIN x.v |-> JsonDumps(x.v[k])]]
    [] OTHER -> x

RECURSIVE JsonLoads(_)
JsonLoads(doc) ==
  CASE doc.t = "array" -> PyList([i \in 1..Len(doc.v) |-> JsonLoads(doc.v[i])])
    [] doc.t = "object" -> PyDict([k \in DOMAIN doc.v |-> JsonLoads(doc.v[k])])
    [] OTHER -> doc

\* hashlib.md5(json.dumps(state_data, sort_keys=True).encode()).hexdigest()
_generate_state_checksum(state_data) == [t |-> "md5", v |-> JsonDumps(state_data)]

(***************************************************************************)
(* The live environment e: what hyprctl prints for each topic (PyNone when *)
(* the command fails, times out or prints no JSON), the process table read *)
(* through /proc and psutil, the inet connections and the Firefox profile. *)
(***************************************************************************)
\* _run_hyprctl_command(command): the parsed JSON, or None
_run_hyprctl_command(e, command) == e.hypr[command]

\* str.lower() on the class names of the model
Lower(s) == IF s = "Firefox" THEN "firefox" ELSE s

\* os.path.basename on the paths of the model
Basename(path) ==
  CASE path = "/home/u/venvs/proj" -> "proj"
    [] path = "/home/u/.mozilla/firefox/x.default/sessionstore.jsonlz4" -> "sessionstore.jsonlz4"
    [] OTHER -> path

\* self.config["application_contexts"]
BrowserApps == {"firefox", "chrome", "chromium", "brave"}
TerminalApps == {"kitty", "alacritty", "wezterm", "gnome-terminal"}
IdeApps == {"code", "vscodium", "void"}
CreativeApps == {"krita", "gimp", "blender"}

\* the /proc entry of pid, or PyNone when the process cannot be read
ProcOf(e, pid) ==
  IF pid.t = "int" /\ \E i \in 1..Len(e.procs) : e.procs[i].pid = pid.v
  THEN LET i == CHOOSE j \in 1..Len(e.procs) : e.procs[j].pid = pid.v
       IN e.procs[i]
  ELSE PyNone

capture_monitor_layouts(e) ==
  LET monitors == Or(_run_hyprctl_command(e, "monitors"), EmptyList)
      layout(monitor) == PyDict([
          id |-> GetN(monitor, "id"),
          name |-> GetN(monitor, "name"),
          scale |-> Get(monitor, "scale", PyFloat(1)),
          transform |-> Get(monitor, "transform", PyInt(0)),
          focused |-> Get(monitor, "focused", PyBool(FALSE)),
          dpmsStatus |-> Get(monitor, "dpmsStatus", PyBool(TRUE))])
  IN PyList(MapSeq(monitors.v, layout))

\* workspace_id < 0 raises TypeError unless the id is a number
capture_workspace_states(e) ==
  LET workspaces == Or(_run_hyprctl_command(e, "workspaces"), EmptyList)
      clients == Or(_run_hyprctl_command(e, "clients"), EmptyList)
      workspace_clients(workspace) ==
        SelectSeq(clients.v, LAMBDA client :
          GetN(Get(client, "workspace", EmptyDict), "id") = GetN(workspace, "id"))
      client_ref(client) == PyDict([
          address |-> GetN(client, "address"),
          class |-> GetN(client, "class"),
          title |-> GetN(client, "title")])
      workspace_state(workspace) == PyDict([
          id |-> GetN(workspace, "id"),
          name |-> GetN(workspace, "name"),
          windows |-> Get(workspace, "windows", PyInt(0)),
          hasfullscreen |-> Get(workspace, "hasfullscreen", PyBool(FALSE)),
          clients |-> PyList(MapSeq(workspace_clients(workspace), client_ref)),
          specialWorkspace |-> PyBool(GetN(workspace, "id").v < 0)])
  IN IF \E i \in 1..Len(workspaces.v) :
          GetN(workspaces.v[i], "id").t \notin {"int", "float"}
     THEN Raised
     ELSE PyList(MapSeq(workspaces.v, workspace_state))

capture_window_states(e) ==
  LET clients == Or(_run_hyprctl_command(e, "clients"), EmptyList)
      active_window == Or(_run_hyprctl_command(e, "activewindow"), EmptyDict)
      window_state(client) == PyDict([
          address |-> GetN(client, "address"),
          class |-> GetN(client, "class"),
          title |-> GetN(client, "title"),
          pid |-> GetN(client, "pid"),
          fullscreen |-> Get(client, "fullscreen", PyBool(FALSE)),
          floating |-> Get(client, "floating", PyBool(FALSE)),
          workspace |-> Get(client, "workspace", EmptyDict),
          active |-> PyBool(GetN(client, "address") = GetN(active_window, "address"))])
  IN PyList(MapSeq(clients.v, window_state))

\* the KEY=VALUE entries of /proc/<pid>/environ
_detect_development_environments(env_vars) ==
  LET has(k) == k \in DOMAIN env_vars.v
      conda == IF has("CONDA_DEFAULT_ENV")
               THEN <<PyDict([type |-> PyStr("conda"),
                              name |-> env_vars.v["CONDA_DEFAULT_ENV"],
                              active |-> PyBool(TRUE)])>>
               ELSE <<>>
      venv == IF has("VIRTUAL_ENV")
              THEN <<PyDict([type |-> PyStr("venv"),
                             name |-> PyStr(Basename(env_vars.v["VIRTUAL_ENV"].v)),
                             path |-> env_vars.v["VIRTUAL_ENV"],
                             active |-> PyBool(TRUE)])>>
              ELSE <<>>
      pyenv == IF has("PYENV_VERSION")
               THEN <<PyDict([type |-> PyStr("pyenv"),
                              name |-> env_vars.v["PYENV_VERSION"],
                              active |-> PyBool(TRUE)])>>
               ELSE <<>>
      node == IF has("NODE_ENV")
              THEN <<PyDict([type |-> PyStr("node"),
                             environment |-> env_vars.v["NODE_ENV"],
                             active |-> PyBool(TRUE)])>>
              ELSE <<>>
  IN PyList(conda \o venv \o pyenv \o node)

\* readlink of /proc/<pid>/cwd raises when the process is gone: the
\* defaults filled in so far are returned
_capture_process_environment(e, pid) ==
  LET defaults == PyDict([
          development_environments |-> EmptyList,
          current_directory |-> PyNone,
          environment_variables |-> EmptyDict])
      proc == ProcOf(e, pid)
  IN IF ~Truthy(pid) \/ proc = PyNone
     THEN defaults
     ELSE PyDict([
          development_environments |-> _detect_development_environments(proc.environ),
          current_directory |-> proc.cwd,
          environment_variables |-> proc.environ])

\* session_file and profile are set when a Firefox profile is found;
\* no Chrome profile directory exists in the environments of the model
_capture_browser_session(e, browser, pid) ==
  LET base == [type |-> PyStr("browser"), browser |-> PyStr(browser),
               tabs |-> EmptyList, windows |-> EmptyList,
               session_file |-> PyNone]
  IN IF browser = "firefox"
     THEN IF e.firefox_session # PyNone
          THEN PyDict([base EXCEPT !.session_file = e.firefox_session]
                      @@ [profile |-> PyStr("/home/u/.mozilla/firefox/x.default")])
          ELSE PyDict(base)
     ELSE IF browser \in {"chrome", "chromium", "brave"}
          THEN PyDict(base @@ [session_storage |-> EmptyDict])
          ELSE PyDict(base)

\* kitty @ ls is not answered in the environments of the model
_capture_terminal_session(e, terminal, pid) ==
  LET proc == ProcOf(e, pid)
      base == [type |-> PyStr("terminal"), terminal |-> PyStr(terminal),
               current_directory |-> IF Truthy(pid) /\ proc # PyNone
                                     THEN proc.cwd ELSE PyNone,
               environment |-> IF Truthy(pid) /\ proc # PyNone
                               THEN proc.environ ELSE EmptyDict,
               shell_session |-> PyNone]
  IN IF terminal = "kitty"
     THEN PyDict(base @@ [kitty_session |-> EmptyDict])
     ELSE PyDict(base)

\* no editor or creative-application profile directory exists in the
\* environments of the model
_capture_application_session_data(e, app_class, pid) ==
  CASE app_class \in BrowserApps ->
         _capture_browser_session(e, app_class, pid)
    [] app_class \in TerminalApps ->
         _capture_terminal_session(e, app_class, pid)
    [] app_class \in IdeApps ->
         PyDict([type |-> PyStr("ide"), ide |-> PyStr(app_class),
                 workspace |-> PyNone, open_files |-> EmptyList,
                 projects |-> EmptyList])
    [] app_class \in CreativeApps ->
         PyDict([type |-> PyStr("creative"), application |-> PyStr(app_class),
                 open_documents |-> EmptyList, workspace_layout |-> PyNone])
    [] OTHER -> EmptyDict

AppClass(client) == Lower(Get(client, "class", PyStr("")).v)

capture_application_contexts(e) ==
  LET clients == Or(_run_hyprctl_command(e, "clients"), EmptyList)
      context(client) == PyDict([
          class |-> PyStr(AppClass(client)),
          pid |-> GetN(client, "pid"),
          title |-> GetN(client, "title"),
          workspace |-> GetN(Get(client, "workspace", EmptyDict), "id"),
          window_address |-> GetN(client, "address"),
          session_data |-> _capture_application_session_data(e, AppClass(client), GetN(client, "pid")),
          environment |-> _capture_process_environment(e, GetN(client, "pid")),
          state_checksum |-> _generate_state_checksum(client)])
  IN PyList(MapSeq(clients.v, context))

capture_terminal_sessions(e, now) ==
  LET clients == Or(_run_hyprctl_command(e, "clients"), EmptyList)
      terminals == SelectSeq(clients.v, LAMBDA client : AppClass(client) \in TerminalApps)
      terminal_session(client) == PyDict([
          class |-> PyStr(AppClass(client)),
          pid |-> GetN(client, "pid"),
          window_address |-> GetN(client, "address"),
          workspace |-> GetN(Get(client, "workspace", EmptyDict), "id"),
          environment |-> _capture_process_environment(e, GetN(client, "pid")),
          session_data |-> _capture_terminal_session(e, AppClass(client), GetN(client, "pid")),
          timestamp |-> IsoTime(now)])
  IN PyList(MapSeq(terminals, terminal_session))

capture_browser_sessions(e, now) ==
  LET clients == Or(_run_hyprctl_command(e, "clients"), EmptyList)
      browsers == SelectSeq(clients.v, LAMBDA client : AppClass(client) \in BrowserApps)
      browser_session(client) == PyDict([
          class |-> PyStr(AppClass(client)),
          pid |-> GetN(client, "pid"),
          window_address |-> GetN(client, "address"),
          workspace |-> GetN(Get(client, "workspace", EmptyDict), "id"),
          session_data |-> _capture_browser_session(e, AppClass(client), GetN(client, "pid")),
          timestamp |-> IsoTime(now)])
  IN PyList(MapSeq(browsers, browser_session))

\* psutil.process_iter: every live process, window-owning or not
capture_development_environments(e, now) ==
  LET found == SelectSeq(e.procs, LAMBDA proc :
                 Truthy(_detect_development_environments(proc.environ)))
      environment_data(proc) == PyDict([
          pid |-> PyInt(proc.pid),
          environments |-> _detect_development_environments(proc.environ),
          timestamp |-> IsoTime(now)])
  IN PyList(MapSeq(found, environment_data))

\* psutil.cpu_percent(interval=1) blocks for a second; conn.laddr and
\* conn.raddr are the named tuples psutil returns
capture_system_state(e, now) ==
  LET connection(conn) == PyDict([
          fd |-> PyInt(conn.fd),
          family |-> PyInt(conn.family),
          laddr |-> PyTuple(<<PyStr(conn.ip), PyInt(conn.port)>>),
          raddr |-> PyTuple(<<>>),
          status |-> PyStr(conn.status),
          pid |-> PyInt(conn.pid)])
  IN PyDict([
          timestamp |-> IsoTime(now),
          cpu_usage |-> PyFloat(e.cpu),
          disk_usage |-> EmptyDict,
          network_connections |-> PyList(MapSeq(e.conns, connection)),
          running_processes |-> PyInt(Len(e.procs))])

(***************************************************************************)
(* QuantumState: a record of the eleven dataclass fields.                  *)
(***************************************************************************)
Components == {"monitor_layouts", "workspace_states", "window_states",
               "application_contexts", "terminal_sessions", "browser_sessions",
               "development_environments", "system_state"}
Fields == Components \cup {"timestamp", "session_id", "validation_checksums"}

\* dataclasses.asdict(state)
asdict(state) == PyDict(state)

\* variant: the overall digest also covers the stored checksum map
generate_validation_checksums_self(state) ==
  PyDict([component \in Components \cup {"overall"} |->
        IF component = "overall"
        THEN _generate_state_checksum(asdict(state))
        ELSE _generate_state_checksum(state[component])])

generate_validation_checksums(state) ==
  LET state_dict == PyDict([f \in Fields \ {"validation_checksums"} |-> state[f]])
  IN PyDict([component \in Components \cup {"overall"} |->
        IF component = "overall"
        THEN _generate_state_checksum(state_dict)
        ELSE _generate_state_checksum(state[component])])

\* capture_workspace_states is the one capturer that can raise here; the
\* session id is taken before the capturers run, the timestamp after
\* the second that capture_system_state blocks for
capture_quantum_state(e, now) ==
  IF capture_workspace_states(e) = Raised
  THEN Raised
  ELSE LET quantum_state == [
             timestamp |-> IsoTime(now + TicksPerSec),
             session_id |-> Sid("quantum_", Sec(now)),
             monitor_layouts |-> capture_monitor_layouts(e),
             workspace_states |-> capture_workspace_states(e),
             window_states |-> capture_window_states(e),
             application_contexts |-> capture_application_contexts(e),
             terminal_sessions |-> capture_terminal_sessions(e, now),
             browser_sessions |-> capture_browser_sessions(e, now),
             development_environments |-> capture_development_environments(e, now),
             system_state |-> capture_system_state(e, now),
             validation_checksums |-> EmptyDict]
       IN [quantum_state EXCEPT
             !.validation_checksums = generate_validation_checksums(quantum_state)]

\* variant: the overall digest is not compared
_validate_state_checksums_components(state) ==
  LET current_checksums == generate_validation_checksums(state)
      stored == state.validation_checksums
  IN IF stored.t # "dict"
     THEN FALSE
     ELSE \A component \in DOMAIN stored.v \ {"overall"} :
               GetN(current_checksums, component) = stored.v[component]

\* any exception inside (a stored map that is no dict) gives False
_validate_state_checksums(state) ==
  LET current_checksums == generate_validation_checksums(state)
      stored == state.validation_checksums
  IN IF stored.t # "dict"
     THEN FALSE
     ELSE /\ \A component \in DOMAIN stored.v \ {"overall"} :
               GetN(current_checksums, component) = stored.v[component]
          /\ GetN(stored, "overall") = GetN(current_checksums, "overall")

(***************************************************************************)
(* File contents: Absent (no such file), Garbage (text that is no JSON),   *)
(* or a JSON document.                                                     *)
(***************************************************************************)
Absent == [t |-> "absent", v |-> 0]
Garbage == [t |-> "garbage", v |-> 0]

\* the text json.dump(asdict(state), f, indent=2) writes
StateDocument(state) == JsonDumps(asdict(state))

\* variant: fields the document lacks are read as None
load_quantum_state_lenient(content) ==
  IF content = Absent \/ content = Garbage
  THEN Raised
  ELSE LET state_dict == JsonLoads(content)
       IN IF state_dict.t # "dict"
          THEN Raised
          ELSE [f \in Fields |-> GetN(state_dict, f)]

\* load_quantum_state on a file with this content: open raises on a
\* missing file, json.load on text that is no JSON, QuantumState(**d)
\* on anything but a mapping with exactly the eleven field names
load_quantum_state(content) ==
  IF content = Absent \/ content = Garbage
  THEN Raised
  ELSE LET state_dict == JsonLoads(content)
       IN IF state_dict.t # "dict"
          THEN Raised
          ELSE IF DOMAIN state_dict.v # Fields
               THEN Raised
               ELSE [f \in Fields |-> state_dict.v[f]]

\* variant: checksums found in the legacy file are kept
migrate_legacy_state_trusting(content, now) ==
  IF content = Absent \/ content = Garbage
  THEN Raised
  ELSE LET legacy_data == JsonLoads(content)
       IN IF legacy_data.t # "dict"
          THEN Raised
          ELSE LET quantum_state == [
                     timestamp |-> IsoTime(now),
                     session_id |-> Sid("migrated_", Sec(now)),
                     monitor_layouts |-> Get(legacy_data, "monitors", EmptyList),
                     workspace_states |-> Get(legacy_data, "workspaces", EmptyList),
                     window_states |-> Get(legacy_data, "windows", EmptyList),
                     application_contexts |-> Get(legacy_data, "applications", EmptyList),
                     terminal_sessions |-> Get(legacy_data, "terminals", EmptyList),
                     browser_sessions |-> Get(legacy_data, "browsers", EmptyList),
                     development_environments |-> Get(legacy_data, "environments", EmptyList),
                     system_state |-> Get(legacy_data, "system", EmptyDict),
                     validation_checksums |-> EmptyDict]
               IN [quantum_state EXCEPT
                     !.validation_checksums =
                       Get(legacy_data, "validation_checksums",
                           generate_validation_checksums(quantum_state))]

\* migrate_legacy_state on a legacy file with this content
migrate_legacy_state(content, now) ==
  IF content = Absent \/ content = Garbage
  THEN Raised
  ELSE LET legacy_data == JsonLoads(content)
       IN IF legacy_data.t # "dict"
          THEN Raised
          ELSE LET quantum_state == [
                     timestamp |-> IsoTime(now),
                     session_id |-> Sid("migrated_", Sec(now)),
                     monitor_layouts |-> Get(legacy_data, "monitors", EmptyList),
                     workspace_states |-> Get(legacy_data, "workspaces", EmptyList),
                     window_states |-> Get(legacy_data, "windows", EmptyList),
                     application_contexts |-> Get(legacy_data, "applications", EmptyList),
                     terminal_sessions |-> Get(legacy_data, "terminals", EmptyList),
                     browser_sessions |-> Get(legacy_data, "browsers", EmptyList),
                     development_environments |-> Get(legacy_data, "environments", EmptyList),
                     system_state |-> Get(legacy_data, "system", EmptyDict),
                     validation_checksums |-> EmptyDict]
               IN [quantum_state EXCEPT
                     !.validation_checksums = generate_validation_checksums(quantum_state)]

\* len(x); -1 stands for the TypeError of a value without a length
PyLen(x) ==
  CASE x.t \in {"list", "tuple"} -> Len(x.v)
    [] x.t = "dict" -> Cardinality(DOMAIN x.v)
    [] OTHER -> -1

\* any exception raised while the live state is captured gives False
validate_state_compatibility(e, state) ==
  LET current_monitors == capture_monitor_layouts(e)
      current_workspaces == capture_workspace_states(e)
  IN IF PyLen(state.monitor_layouts) = -1
     THEN FALSE
     ELSE IF PyLen(current_monitors) # PyLen(state.monitor_layouts)
     THEN FALSE
     ELSE IF current_workspaces = Raised \/ PyLen(state.workspace_states) = -1
     THEN FALSE
     ELSE IF PyLen(current_workspaces) < PyLen(state.workspace_states)
     THEN FALSE
     ELSE TRUE

(***************************************************************************)
(* The environments the snapshot operations are run in.                    *)
(***************************************************************************)
Mon1 == PyDict([id |-> PyInt(1), name |-> PyStr("eDP-1"), focused |-> PyBool(TRUE)])
Mon2 == PyDict([id |-> PyInt(2), name |-> PyStr("HDMI-A-1"), scale |-> PyFloat(2)])
Ws1 == PyDict([id |-> PyInt(1), name |-> PyStr("1"), windows |-> PyInt(1)])
Ws2 == PyDict([id |-> PyInt(2), name |-> PyStr("2")])
WsSpecial == PyDict([id |-> PyInt(-99), name |-> PyStr("special:magic")])
WsNoId == PyDict([name |-> PyStr("3")])
ClientKitty == PyDict([address |-> PyStr("0x1"), class |-> PyStr("kitty"),
                       title |-> PyStr("Terminal"), pid |-> PyInt(101),
                       workspace |-> PyDict([id |-> PyInt(1)])])
ClientFirefox == PyDict([address |-> PyStr("0x2"), class |-> PyStr("Firefox"),
                         title |-> PyStr("Mozilla Firefox"), pid |-> PyInt(102),
                         fullscreen |-> PyBool(TRUE),
                         workspace |-> PyDict([id |-> PyInt(2)])])
ProcKitty == [pid |-> 101, cwd |-> PyStr("/home/u/src"),
              environ |-> PyDict([PWD |-> PyStr("/home/u/src"),
                                  TERM |-> PyStr("xterm-kitty"),
                                  API_TOKEN |-> PyStr("secret"),
                                  VIRTUAL_ENV |-> PyStr("/home/u/venvs/proj")])]
ProcFirefox == [pid |-> 102, cwd |-> PyStr("/home/u"),
                environ |-> PyDict([HOME |-> PyStr("/home/u")])]
Conn1 == [fd |-> 7, family |-> 2, ip |-> "127.0.0.1", port |-> 8080,
          status |-> "LISTEN", pid |-> 102]

\* a client hyprctl reports with a title only
ClientBare == PyDict([title |-> PyStr("popup")])

MonitorOpts == {PyNone, PyList(<<Mon1>>), PyList(<<Mon1, Mon2>>)}
WorkspaceOpts == {PyNone, PyList(<<Ws1>>), PyList(<<Ws1, Ws2>>),
                  PyList(<<Ws1, WsSpecial>>), PyList(<<Ws1, WsNoId>>)}
\* the clients with the active window, the processes and the connections
\* that go with them
DesktopNone ==
  [clients |-> PyNone, activewindow |-> PyNone, procs |-> <<>>, conns |-> <<>>,
   firefox_session |-> PyNone]
DesktopKitty ==
  [clients |-> PyList(<<ClientKitty>>), activewindow |-> ClientKitty,
   procs |-> <<ProcKitty>>, conns |-> <<>>, firefox_session |-> PyNone]
DesktopFull ==
  [clients |-> PyList(<<ClientKitty, ClientFirefox>>), activewindow |-> PyNone,
   procs |-> <<ProcKitty, ProcFirefox>>, conns |-> <<Conn1>>,
   firefox_session |-> PyStr("/home/u/.mozilla/firefox/x.default/sessionstore.jsonlz4")]

MkEnv(monitors, workspaces, desktop) ==
  [hypr |-> [monitors |-> monitors, workspaces |-> workspaces,
             clients |-> desktop.clients, activewindow |-> desktop.activewindow],
   procs |-> desktop.procs, conns |-> desktop.conns,
   firefox_session |-> desktop.firefox_session, cpu |-> 3]

\* a file that holds a JSON array
ArrayDocument == JsonDumps(PyList(<<PyInt(1)>>))

\* legacy session files: any subset of the legacy keys may be missing, and
\* the file may carry checksums of its own
LegacyFull == [monitors |-> PyList(<<PyDict([id |-> PyInt(1), name |-> PyStr("Legacy Monitor")])>>),
               workspaces |-> PyList(<<PyDict([id |-> PyInt(1)]), PyDict([id |-> PyInt(2)])>>),
               windows |-> PyList(<<PyDict([address |-> PyStr("0x123")])>>),
               applications |-> PyList(<<PyDict([class |-> PyStr("legacy")])>>),
               terminals |-> PyList(<<PyDict([class |-> PyStr("legacy-terminal")])>>),
               browsers |-> PyList(<<PyDict([class |-> PyStr("legacy-browser")])>>),
               environments |-> PyList(<<PyDict([type |-> PyStr("legacy")])>>),
               system |-> PyDict([timestamp |-> PyStr("2024-01-01T00:00:00")]),
               validation_checksums |-> PyDict([overall |-> PyStr("0123"),
                                                monitor_layouts |-> PyStr("4567")])]
LegacyKeySets == {{}, DOMAIN LegacyFull \ {"validation_checksums"},
                  DOMAIN LegacyFull, {"monitors", "workspaces", "validation_checksums"}}
LegacyFiles == {JsonDumps(PyDict([k \in ks |-> LegacyFull[k]])) : ks \in LegacyKeySets}
                 \cup {Garbage, Absent, ArrayDocument}

(***************************************************************************)
(* State.                                                                  *)
(*   env, clock     the live environment and the time                      *)
(*   snap           the QuantumState the caller holds (PyNone: none yet)   *)
(*   prov           history of snap: how it was made, from what, which     *)
(*                  field was changed since, whether it validated before   *)
(*   artifact       content of the state file the caller saves to          *)
(*   saved          history of artifact: the snapshot given to the save    *)
(*   out            outcome of the caller's last call                      *)
(*   state_dir      files of the state directory, name -> content          *)
(*   backup_dir     files of the backup directory, name -> ctime, content  *)
(*   max_backups    self.config["max_backups"]                             *)
(*   pc, job        per manager instance: its position in                  *)
(*                  save_quantum_state and the locals of that call         *)
(*   result         per manager instance: outcome of its last call         *)
(*   hist           history of the store: saves made, faults injected,     *)
(*                  whether a deletion found the file gone                 *)
(*   performance_optimization   self.config["performance_optimization"]    *)
(*   event_monitor_running      self.event_monitor_running                 *)
(*   event_callbacks            self.event_callbacks                       *)
(*   threads        the monitor threads start_event_monitoring created:    *)
(*                  position in _event_monitor_loop, polls made since the  *)
(*                  running flag was last cleared                          *)
(*   monitor_log    history of the last poll: what hyprctl answered, what  *)
(*                  it answered to the poll before, the callbacks invoked  *)
(*   auto_save      the auto-save thread: position in auto_save_loop and   *)
(*                  the outcome of its last cycle                          *)
(***************************************************************************)
VARIABLES env, clock, snap, prov, artifact, saved, out,
          state_dir, backup_dir, max_backups, pc, job, result, hist,
          performance_optimization, event_monitor_running, event_callbacks,
          threads, monitor_log, auto_save

snapVars == <<env, snap, prov, artifact, saved, out>>
storeVars == <<state_dir, backup_dir, max_backups, pc, job, result, hist>>
workerVars == <<performance_optimization, event_monitor_running, event_callbacks,
                threads, monitor_log, auto_save>>
vars == <<env, clock, snap, prov, artifact, saved, out,
          state_dir, backup_dir, max_backups, pc, job, result, hist,
          performance_optimization, event_monitor_running, event_callbacks,
          threads, monitor_log, auto_save>>

NoOut == [op |-> "none", ret |-> PyNone]
NoProv == [origin |-> "none", tampered |-> "", valid_before |-> FALSE,
           source |-> PyNone, at |-> 0]

\* hyprctl answers nothing and no window-owning process runs
QuietEnv == MkEnv(PyNone, PyNone, DesktopNone)

\* the environments of the snapshot pipeline
SnapEnvs ==
  {MkEnv(m, w, DesktopFull) : m \in MonitorOpts, w \in WorkspaceOpts}
    \cup {QuietEnv, MkEnv(PyList(<<Mon1>>), PyList(<<Ws1>>), DesktopKitty)}

NoLog == [polled |-> FALSE, seen |-> PyNone, prev |-> PyNone, calls |-> <<>>,
          callbacks |-> <<>>, raised |-> FALSE, had_prev |-> FALSE]
NoWorker == [pc |-> "none", last |-> "none", failed |-> 0, interval |-> 0]

\* what __init__ sets for the event monitor, with the default configuration
\* and no thread started
WorkersIdle ==
  /\ performance_optimization = TRUE
  /\ event_monitor_running = FALSE
  /\ event_callbacks = <<>>
  /\ threads = <<>>
  /\ monitor_log = NoLog
  /\ auto_save = NoWorker

\* the store at rest, for the specifications that do not use it
StoreIdle ==
  /\ state_dir = <<>>
  /\ backup_dir = <<>>
  /\ max_backups = 10
  /\ pc = <<>>
  /\ job = <<>>
  /\ result = <<>>
  /\ hist = <<>>

InitSnap ==
  /\ env \in SnapEnvs
  /\ clock = 0
  /\ snap = PyNone
  /\ prov = NoProv
  /\ artifact = Absent
  /\ saved = PyNone
  /\ out = NoOut
  /\ StoreIdle
  /\ WorkersIdle

(***************************************************************************)
(* The caller's operations on one snapshot.                                *)
(***************************************************************************)
\* state = manager.capture_quantum_state()
CaptureState ==
  /\ snap = PyNone
  /\ clock + TicksPerSec <= MaxClock
  /\ LET r == capture_quantum_state(env, clock)
     IN IF r = Raised
        THEN /\ out' = [op |-> "capture", ret |-> Raised]
             /\ UNCHANGED <<snap, prov>>
        ELSE /\ snap' = r
             /\ prov' = [NoProv EXCEPT !.origin = "captured", !.source = env,
                                       !.at = clock]
             /\ out' = NoOut
  /\ clock' = clock + TicksPerSec
  /\ UNCHANGED <<env, artifact, saved>>
  /\ UNCHANGED storeVars
  /\ UNCHANGED workerVars

\* a changed copy of one item of a component
TamperItem(item) ==
  IF item.t = "dict"
  THEN PyDict(("name" :> PyStr("Tampered Monitor")) @@ item.v)
  ELSE PyStr("Tampered")

\* the values a caller may put in place of v
TamperValues(v) ==
  CASE v.t = "list" /\ Len(v.v) > 0 ->
         {PyList([v.v EXCEPT ![1] = TamperItem(v.v[1])])}
    [] v.t = "list" /\ Len(v.v) = 0 ->
         {PyList(<<PyDict([name |-> PyStr("Tampered Monitor")])>>)}
    [] v.t = "dict" ->
         {PyDict(("cpu_usage" :> PyFloat(99)) @@ v.v)}
    [] v.t = "isotime" -> {IsoTime(v.v + 1)}
    [] v.t = "sid" -> {Sid(v.v[1], v.v[2] + 1)}
    [] OTHER -> {PyStr("Tampered")}

\* state.<field> = <another value>, e.g.
\* state.monitor_layouts[0]["name"] = "Tampered Monitor"
Tamper ==
  /\ snap # PyNone
  /\ prov.tampered = ""
  /\ \E field \in Fields \ {"validation_checksums"} :
       \E val \in TamperValues(snap[field]) :
         /\ val # snap[field]
         /\ snap' = [snap EXCEPT ![field] = val]
         /\ prov' = [prov EXCEPT !.tampered = field,
                                 !.valid_before = _validate_state_checksums(snap)]
  /\ out' = NoOut
  /\ UNCHANGED <<env, clock, artifact, saved>>
  /\ UNCHANGED storeVars
  /\ UNCHANGED workerVars

\* the write of save_quantum_state(state): json.dump(asdict(state), f)
SaveState ==
  /\ snap # PyNone
  /\ prov.tampered = ""
  /\ artifact = Absent
  /\ artifact' = StateDocument(snap)
  /\ saved' = [state |-> snap, prov |-> prov]
  /\ out' = [op |-> "save", ret |-> PyNone]
  /\ UNCHANGED <<env, clock, snap, prov>>
  /\ UNCHANGED storeVars
  /\ UNCHANGED workerVars

\* state = manager.load_quantum_state(name)
LoadState ==
  /\ prov.origin # "loaded"
  /\ LET r == load_quantum_state(artifact)
     IN IF r = Raised
        THEN /\ out' = [op |-> "load", ret |-> Raised]
             /\ UNCHANGED <<snap, prov>>
        ELSE /\ snap' = r
             /\ prov' = [NoProv EXCEPT !.origin = "loaded", !.source = saved]
             /\ out' = NoOut
  /\ UNCHANGED <<env, clock, artifact, saved>>
  /\ UNCHANGED storeVars
  /\ UNCHANGED workerVars

\* manager._validate_state_checksums(state)
ValidateState ==
  /\ snap # PyNone
  /\ out' = [op |-> "validate", ret |-> PyBool(_validate_state_checksums(snap))]
  /\ UNCHANGED <<env, clock, snap, prov, artifact, saved>>
  /\ UNCHANGED storeVars
  /\ UNCHANGED workerVars

\* manager.validate_state_compatibility(state), called when the desktop
\* has become live: monitors were plugged, workspaces came and went
LiveEnvs(e) ==
  {[e EXCEPT !.hypr.monitors = m, !.hypr.workspaces = w] :
     m \in MonitorOpts, w \in WorkspaceOpts}

CheckCompatibility ==
  /\ snap # PyNone
  /\ \E live \in LiveEnvs(env) :
       out' = [op |-> "compat",
               ret |-> PyBool(validate_state_compatibility(live, snap)),
               live |-> live.hypr]
  /\ UNCHANGED <<env, clock, snap, prov, artifact, saved>>
  /\ UNCHANGED storeVars
  /\ UNCHANGED workerVars

\* state = manager.migrate_legacy_state(legacy_file)
\* (it reads nothing of the environment, so it is run in one only)
MigrateLegacy ==
  /\ snap = PyNone
  /\ env = QuietEnv
  /\ \E content \in LegacyFiles :
       LET r == migrate_legacy_state(content, clock)
       IN IF r = Raised
          THEN /\ out' = [op |-> "migrate", ret |-> Raised]
               /\ UNCHANGED <<snap, prov>>
          ELSE /\ snap' = r
               /\ prov' = [NoProv EXCEPT !.origin = "migrated", !.source = content,
                                         !.at = clock]
               /\ out' = NoOut
  /\ UNCHANGED <<env, clock, artifact, saved>>
  /\ UNCHANGED storeVars
  /\ UNCHANGED workerVars

NextSnap ==
  \/ CaptureState
  \/ Tamper
  \/ SaveState
  \/ LoadState
  \/ ValidateState
  \/ CheckCompatibility
  \/ MigrateLegacy

SpecSnap == InitSnap /\ [][NextSnap]_vars

(***************************************************************************)
(* The bulk capturers, each run on what hyprctl answers.                   *)
(***************************************************************************)
ClientOpts == {PyNone, PyList(<<ClientKitty>>),
               PyList(<<ClientKitty, ClientFirefox>>),
               PyList(<<ClientKitty, ClientBare>>)}
ActiveWindowOpts == {PyNone, EmptyDict, ClientKitty, ClientFirefox}

\* what hyprctl may answer, with the processes of the clients running
CaptureEnvs ==
  {[hypr |-> [monitors |-> m, workspaces |-> w, clients |-> c, activewindow |-> a],
    procs |-> <<ProcKitty, ProcFirefox>>, conns |-> <<>>,
    firefox_session |-> PyNone, cpu |-> 3] :
     m \in MonitorOpts, w \in WorkspaceOpts, c \in ClientOpts,
     a \in ActiveWindowOpts}

InitCapture ==
  /\ env \in CaptureEnvs
  /\ clock = 0
  /\ snap = PyNone
  /\ prov = NoProv
  /\ artifact = Absent
  /\ saved = PyNone
  /\ out = NoOut
  /\ StoreIdle
  /\ WorkersIdle

\* manager.capture_monitor_layouts()
CaptureMonitors ==
  /\ out' = [op |-> "capture_monitor_layouts", ret |-> capture_monitor_layouts(env)]
  /\ UNCHANGED <<env, clock, snap, prov, artifact, saved>>
  /\ UNCHANGED storeVars
  /\ UNCHANGED workerVars

\* manager.capture_workspace_states()
CaptureWorkspaces ==
  /\ out' = [op |-> "capture_workspace_states", ret |-> capture_workspace_states(env)]
  /\ UNCHANGED <<env, clock, snap, prov, artifact, saved>>
  /\ UNCHANGED storeVars
  /\ UNCHANGED workerVars

\* manager.capture_window_states()
CaptureWindows ==
  /\ out' = [op |-> "capture_window_states", ret |-> capture_window_states(env)]
  /\ UNCHANGED <<env, clock, snap, prov, artifact, saved>>
  /\ UNCHANGED storeVars
  /\ UNCHANGED workerVars

\* manager.capture_application_contexts()
CaptureApplications ==
  /\ out' = [op |-> "capture_application_contexts",
             ret |-> capture_application_contexts(env)]
  /\ UNCHANGED <<env, clock, snap, prov, artifact, saved>>
  /\ UNCHANGED storeVars
  /\ UNCHANGED workerVars

NextCapture ==
  \/ CaptureMonitors
  \/ CaptureWorkspaces
  \/ CaptureWindows
  \/ CaptureApplications
  \/ CaptureState

SpecCapture == InitCapture /\ [][NextCapture]_vars

(***************************************************************************)
(* The snapshot store: save_quantum_state with _create_backup and          *)
(* _cleanup_old_backups, step by step, for the manager instances that      *)
(* share one state directory; load_quantum_state and                       *)
(* get_compatible_states.                                                  *)
(***************************************************************************)
Managers == {1, 2}
MaxSaves == 3
MaxBackups == 2
MaxFaults == 1

\* a file name of the state directory: f"{prefix}{stem}{ext}"
FileName(prefix, stem) == [prefix |-> prefix, stem |-> stem, ext |-> ".json"]

\* f"quantum_state_{state.session_id}.json"
DefaultName(state) == FileName("quantum_state_", state.session_id)

\* the file names callers choose themselves
CallerNames == {FileName("test_state_", PyStr("0"))}

\* f"backup_{os.path.basename(state_path)}_{int(time.time())}"
BackupName(name, now) == [backup |-> TRUE, base |-> name, sec |-> Sec(now)]

\* a file of the backup directory whose name does not start with backup_
StrayName == [backup |-> FALSE, base |-> FileName("notes_", PyStr("0")), sec |-> 0]

\* a state file some other program left behind
OldName == FileName("quantum_state_", PyStr("old"))
\* a JSON object that lacks fields of QuantumState
PartialDocument == JsonDumps(PyDict([session_id |-> PyStr("old"),
                                     timestamp |-> PyStr("2024-01-01T00:00:00")]))

NoJob == [path |-> PyNone, save |-> 0, listing |-> {}, todo |-> <<>>]
NoResult == [op |-> "none", status |-> "none", value |-> PyNone,
             seen |-> PyNone, wrote |-> FALSE]
NoHist == [saves |-> 0, faults |-> 0, race |-> FALSE]

\* the function f without the key k
Without(f, k) == [x \in DOMAIN f \ {k} |-> f[x]]

\* the content of the file called name
Content(dir, name) == IF name \in DOMAIN dir THEN dir[name] ELSE Absent

\* all orders of the elements of S
RECURSIVE OrdersOf(_)
OrdersOf(S) ==
  IF S = {} THEN {<<>>}
  ELSE UNION {{<<x>> \o q : q \in OrdersOf(S \ {x})} : x \in S}

\* backup_files.sort(key=lambda x: x[1]): files of equal ctime stay in the
\* order os.listdir gave them, which is any order
SortedByCtime(names, dir) ==
  {q \in OrdersOf(names) :
     \A i \in 1..(Len(q) - 1) : dir[q[i]].ctime <= dir[q[i + 1]].ctime}

\* backup_files[:len(backup_files) - max_backups] when the limit is exceeded
files_to_remove(backup_files, limit) ==
  IF Len(backup_files) > limit
  THEN SubSeq(backup_files, 1, Len(backup_files) - limit)
  ELSE <<>>

\* except Exception in _create_backup: the error is logged and
\* save_quantum_state goes on to return the path.
\* variant: the error leaves save_quantum_state
AfterBackupError_raise(m) == "raised"

AfterBackupError(m) == "returned"

\* except Exception in _cleanup_old_backups: the error is logged, the rest
\* of the loop is skipped and _create_backup goes on
AfterCleanupError(m) == "returned"

\* the end of save_quantum_state for manager m: return state_path, or an
\* exception after the state file was written
Finish(m, status) ==
  /\ pc' = [pc EXCEPT ![m] = "idle"]
  /\ result' = [result EXCEPT ![m] =
        [NoResult EXCEPT !.op = "save", !.status = status,
                         !.value = IF status = "returned" THEN job[m].path ELSE PyNone,
                         !.wrote = TRUE]]
  /\ job' = [job EXCEPT ![m] = NoJob]

\* an operating-system fault may be injected
MayFail == hist.faults < MaxFaults

\* save_quantum_state(state, filename) up to the end of json.dump: open
\* fails and leaves the directory as it is, or json.dump fails after open
\* has truncated the file, or the document is written
SaveWrite(m) ==
  /\ pc[m] = "idle"
  /\ hist.saves < MaxSaves
  /\ \E filename \in {PyNone} \cup CallerNames :
       \E outcome \in {"written", "open_fails", "dump_fails"} :
         LET name == IF filename = PyNone THEN DefaultName(snap) ELSE filename
         IN /\ outcome # "written" => MayFail
            /\ IF outcome = "written"
               THEN /\ state_dir' = (name :> StateDocument(snap)) @@ state_dir
                    /\ pc' = [pc EXCEPT ![m] = "backup"]
                    /\ job' = [job EXCEPT ![m] = [NoJob EXCEPT !.path = name,
                                                    !.save = hist.saves + 1]]
                    /\ UNCHANGED result
               ELSE /\ state_dir' = IF outcome = "dump_fails"
                                    THEN (name :> Garbage) @@ state_dir
                                    ELSE state_dir
                    /\ result' = [result EXCEPT ![m] =
                          [NoResult EXCEPT !.op = "save", !.status = "raised"]]
                    /\ UNCHANGED <<pc, job>>
            /\ hist' = [hist EXCEPT
                 !.saves = @ + 1,
                 !.faults = IF outcome = "written" THEN @ ELSE @ + 1]
  /\ UNCHANGED <<backup_dir, max_backups, clock>>
  /\ UNCHANGED snapVars
  /\ UNCHANGED workerVars

\* _create_backup: shutil.copy2(state_path, backup_path)
Backup(m) ==
  /\ pc[m] = "backup"
  /\ \E copied \in BOOLEAN :
       IF copied
       THEN /\ backup_dir' = (BackupName(job[m].path, clock) :>
                                [ctime |-> clock,
                                 content |-> Content(state_dir, job[m].path),
                                 save |-> job[m].save]) @@ backup_dir
            /\ pc' = [pc EXCEPT ![m] = "listdir"]
            /\ UNCHANGED <<result, job, hist>>
       ELSE /\ MayFail
            /\ Finish(m, AfterBackupError(m))
            /\ hist' = [hist EXCEPT !.faults = @ + 1]
            /\ UNCHANGED backup_dir
  /\ UNCHANGED <<state_dir, max_backups, clock>>
  /\ UNCHANGED snapVars
  /\ UNCHANGED workerVars

\* _cleanup_old_backups: os.listdir(self.backup_dir), keeping the names that
\* start with backup_
ListDir(m) ==
  /\ pc[m] = "listdir"
  /\ \E listed \in BOOLEAN :
       IF listed
       THEN /\ job' = [job EXCEPT ![m].listing =
                         {n \in DOMAIN backup_dir : n.backup}]
            /\ pc' = [pc EXCEPT ![m] = "stat"]
            /\ UNCHANGED <<result, hist>>
       ELSE /\ MayFail
            /\ Finish(m, AfterCleanupError(m))
            /\ hist' = [hist EXCEPT !.faults = @ + 1]
  /\ UNCHANGED <<state_dir, backup_dir, max_backups, clock>>
  /\ UNCHANGED snapVars
  /\ UNCHANGED workerVars

\* _cleanup_old_backups: os.path.getctime of every listed file (it raises
\* for a file that is gone), the sort and the choice of the files to remove
Stat(m) ==
  /\ pc[m] = "stat"
  /\ IF job[m].listing \subseteq DOMAIN backup_dir
     THEN \E backup_files \in SortedByCtime(job[m].listing, backup_dir) :
            LET todo == files_to_remove(backup_files, max_backups)
            IN IF todo = <<>>
               THEN /\ Finish(m, "returned")
                    /\ UNCHANGED hist
               ELSE /\ job' = [job EXCEPT ![m].todo = todo]
                    /\ pc' = [pc EXCEPT ![m] = "remove"]
                    /\ UNCHANGED <<result, hist>>
     ELSE /\ Finish(m, AfterCleanupError(m))
          /\ UNCHANGED hist
  /\ UNCHANGED <<state_dir, backup_dir, max_backups, clock>>
  /\ UNCHANGED snapVars
  /\ UNCHANGED workerVars

\* _cleanup_old_backups: one os.remove(file_path) of the loop; it raises
\* for a file that is gone
Remove(m) ==
  /\ pc[m] = "remove"
  /\ IF Head(job[m].todo) \in DOMAIN backup_dir
     THEN /\ backup_dir' = Without(backup_dir, Head(job[m].todo))
          /\ IF Tail(job[m].todo) = <<>>
             THEN Finish(m, "returned")
             ELSE /\ job' = [job EXCEPT ![m].todo = Tail(@)]
                  /\ UNCHANGED <<pc, result>>
          /\ UNCHANGED hist
     ELSE /\ Finish(m, AfterCleanupError(m))
          /\ hist' = [hist EXCEPT !.race = TRUE]
          /\ UNCHANGED backup_dir
  /\ UNCHANGED <<state_dir, max_backups, clock>>
  /\ UNCHANGED snapVars
  /\ UNCHANGED workerVars

\* time passes
Tick ==
  /\ clock < MaxClock
  /\ clock' = clock + 1
  /\ UNCHANGED storeVars
  /\ UNCHANGED snapVars
  /\ UNCHANGED workerVars

\* the store of manager instances that were just constructed, with the
\* snapshot the callers save; the backup directory holds one file that is
\* no backup
InitStoreWith(instances, state) ==
  /\ env = QuietEnv
  /\ clock = 0
  /\ snap = state
  /\ prov = NoProv
  /\ artifact = Absent
  /\ saved = PyNone
  /\ out = NoOut
  /\ state_dir = <<>>
  /\ backup_dir = StrayName :> [ctime |-> 0, content |-> Garbage, save |-> 0]
  /\ pc = [m \in instances |-> "idle"]
  /\ job = [m \in instances |-> NoJob]
  /\ result = [m \in instances |-> NoResult]
  /\ hist = NoHist
  /\ WorkersIdle

\* one instance with any limit
InitStore ==
  /\ InitStoreWith({1}, capture_quantum_state(QuietEnv, 0))
  /\ max_backups \in 1..MaxBackups

NextStore ==
  \/ \E m \in DOMAIN pc : SaveWrite(m)
  \/ \E m \in DOMAIN pc : Backup(m)
  \/ \E m \in DOMAIN pc : ListDir(m)
  \/ \E m \in DOMAIN pc : Stat(m)
  \/ \E m \in DOMAIN pc : Remove(m)
  \/ Tick

SpecStore == InitStore /\ [][NextStore]_vars

\* two instances that keep one backup each share the directories in which
\* an earlier save_quantum_state left a state file and its backup; no
\* operating-system fault occurs
InitRace ==
  LET state == capture_quantum_state(QuietEnv, 0)
  IN /\ env = QuietEnv
     /\ clock = 0
     /\ snap = state
     /\ prov = NoProv
     /\ artifact = Absent
     /\ saved = PyNone
     /\ out = NoOut
     /\ state_dir = DefaultName(state) :> StateDocument(state)
     /\ backup_dir = (StrayName :> [ctime |-> 0, content |-> Garbage, save |-> 0])
                       @@ (BackupName(DefaultName(state), 0) :>
                             [ctime |-> 0, content |-> StateDocument(state),
                              save |-> 1])
     /\ max_backups = 1
     /\ pc = [m \in Managers |-> "idle"]
     /\ job = [m \in Managers |-> NoJob]
     /\ result = [m \in Managers |-> NoResult]
     /\ hist = [NoHist EXCEPT !.saves = 1, !.faults = MaxFaults]
     /\ WorkersIdle

SpecRace == InitRace /\ [][NextStore]_vars

\* a set of file names as a value
Names(S) == [t |-> "names", v |-> S]

\* state = manager.load_quantum_state(filename); with state_validation
\* set the checksums are validated and the outcome is logged only
Load(m) ==
  /\ pc[m] = "idle"
  /\ \E name \in DOMAIN state_dir \cup {DefaultName(snap), OldName} :
       LET r == load_quantum_state(Content(state_dir, name))
       IN result' = [result EXCEPT ![m] =
            [NoResult EXCEPT !.op = "load",
                             !.status = IF r = Raised THEN "raised" ELSE "returned",
                             !.value = IF r = Raised THEN PyNone ELSE PyDict(r),
                             !.seen = Content(state_dir, name)]]
  /\ UNCHANGED <<state_dir, backup_dir, max_backups, pc, job, hist, clock>>
  /\ UNCHANGED snapVars
  /\ UNCHANGED workerVars

\* the files of the state directory that load
Loadable(dir) == {n \in DOMAIN dir : load_quantum_state(dir[n]) # Raised}

\* manager.get_compatible_states(); seen keeps the names written by
\* save_quantum_state that load at the time of the call
ListCompatible(m) ==
  /\ pc[m] = "idle"
  /\ result' = [result EXCEPT ![m] =
       [NoResult EXCEPT !.op = "list", !.status = "returned",
                        !.value = Names({file \in Loadable(state_dir) :
                                           /\ file.prefix = "quantum_state_"
                                           /\ file.ext = ".json"}),
                        !.seen = Names(Loadable(state_dir) \ {OldName})]]
  /\ UNCHANGED <<state_dir, backup_dir, max_backups, pc, job, hist, clock>>
  /\ UNCHANGED snapVars
  /\ UNCHANGED workerVars

\* another program writes a file that is no snapshot into the state
\* directory
Corrupt ==
  /\ \A m \in DOMAIN pc : pc[m] = "idle"
  /\ \E content \in {Garbage, PartialDocument, ArrayDocument} :
       /\ Content(state_dir, OldName) # content
       /\ state_dir' = (OldName :> content) @@ state_dir
  /\ UNCHANGED <<backup_dir, max_backups, pc, job, result, hist, clock>>
  /\ UNCHANGED snapVars
  /\ UNCHANGED workerVars

\* one instance that keeps one backup, saving either of two snapshots
InitFiles ==
  /\ \E e \in {QuietEnv, MkEnv(PyList(<<Mon1>>), PyList(<<Ws1>>), DesktopKitty)} :
       InitStoreWith({1}, capture_quantum_state(e, 0))
  /\ max_backups = 1

NextFiles ==
  \/ \E m \in DOMAIN pc : SaveWrite(m)
  \/ \E m \in DOMAIN pc : Backup(m)
  \/ \E m \in DOMAIN pc : ListDir(m)
  \/ \E m \in DOMAIN pc : Stat(m)
  \/ \E m \in DOMAIN pc : Remove(m)
  \/ \E m \in DOMAIN pc : Load(m)
  \/ \E m \in DOMAIN pc : ListCompatible(m)
  \/ Corrupt

SpecFiles == InitFiles /\ [][NextFiles]_vars

(***************************************************************************)
(* The event monitor: start_event_monitoring, stop_event_monitoring, the   *)
(* threads running _event_monitor_loop and the callbacks they invoke.      *)
(***************************************************************************)
MaxThreads == 2
MaxCallbacks == 2

\* callback objects: the handler methods each one has, and whether they
\* raise an Exception when called
AllMethods == {"on_workspace_focus", "on_active_window_change", "on_client_changes"}
CbLogger == [id |-> "logger", methods |-> AllMethods, raises |-> FALSE]
CbFaulty == [id |-> "faulty", methods |-> {"on_workspace_focus"}, raises |-> TRUE]
CallbackObjects == {CbLogger, CbFaulty}

\* the desktops the monitor polls
WsFocused == PyDict([id |-> PyInt(1), name |-> PyStr("1"), focused |-> PyBool(TRUE)])
DesktopBusy == MkEnv(PyList(<<Mon1>>), PyList(<<WsFocused, Ws2>>), DesktopKitty)
DesktopOther ==
  MkEnv(PyList(<<Mon1>>), PyList(<<Ws1>>),
        [DesktopFull EXCEPT !.activewindow = ClientFirefox, !.conns = <<>>])
MonitorEnvs == {QuietEnv, DesktopBusy, DesktopOther}

\* for callback in self.event_callbacks: if hasattr(callback, method):
\* callback.method(arg)
HandlerCalls(callbacks, method, arg) ==
  LET having == SelectSeq(callbacks, LAMBDA callback : method \in callback.methods)
  IN [i \in 1..Len(having) |->
        [callback |-> having[i].id, method |-> method, arg |-> arg,
         raises |-> having[i].raises]]

RECURSIVE _handle_workspace_changes(_, _)
_handle_workspace_changes(callbacks, workspaces) ==
  IF workspaces = <<>>
  THEN <<>>
  ELSE (IF Truthy(Get(Head(workspaces), "focused", PyBool(FALSE)))
        THEN HandlerCalls(callbacks, "on_workspace_focus", Head(workspaces))
        ELSE <<>>)
       \o _handle_workspace_changes(callbacks, Tail(workspaces))

_handle_active_window_change(callbacks, active_window) ==
  HandlerCalls(callbacks, "on_active_window_change", active_window)

_handle_client_changes(callbacks, clients) ==
  HandlerCalls(callbacks, "on_client_changes", clients)

\* the calls made until one raises: the exception leaves the handler and
\* the rest of the try block
UpToRaise(calls) ==
  IF \E i \in 1..Len(calls) : calls[i].raises
  THEN SubSeq(calls, 1, CHOOSE i \in 1..Len(calls) :
                          /\ calls[i].raises
                          /\ \A j \in 1..(i - 1) : ~calls[j].raises)
  ELSE calls

\* the calls one poll would make if no callback raised
Dispatch(hypr, callbacks) ==
  (IF Truthy(hypr.workspaces)
   THEN _handle_workspace_changes(callbacks, hypr.workspaces.v) ELSE <<>>)
  \o (IF Truthy(hypr.activewindow)
      THEN _handle_active_window_change(callbacks, hypr.activewindow) ELSE <<>>)
  \o (IF Truthy(hypr.clients)
      THEN _handle_client_changes(callbacks, hypr.clients) ELSE <<>>)

\* one poll: the callbacks invoked, and whether one raised
_monitor_hyprland_events(e, callbacks) ==
  LET calls == UpToRaise(Dispatch(e.hypr, callbacks))
  IN [calls |-> calls, raised |-> \E i \in 1..Len(calls) : calls[i].raises]

\* except Exception in _monitor_hyprland_events: the error is logged and
\* the poll returns.
\* variant: the error leaves _monitor_hyprland_events
PollOutcome_propagate(raised) == IF raised THEN "raised" ELSE "returned"

PollOutcome(raised) == "returned"

\* while self.event_monitor_running.
\* variant: while True
LoopCondition_always(running) == TRUE

LoopCondition(running) == running

InitMonitor ==
  /\ env \in MonitorEnvs
  /\ clock = 0
  /\ snap = PyNone
  /\ prov = NoProv
  /\ artifact = Absent
  /\ saved = PyNone
  /\ out = NoOut
  /\ StoreIdle
  /\ performance_optimization = TRUE
  /\ event_monitor_running = FALSE
  /\ event_callbacks = <<>>
  /\ threads = <<>>
  /\ monitor_log = [NoLog EXCEPT !.seen = QuietEnv.hypr, !.prev = QuietEnv.hypr]
  /\ auto_save = NoWorker

\* manager.add_event_callback(callback), before monitoring is started
AddEventCallback ==
  /\ threads = <<>>
  /\ Len(event_callbacks) < MaxCallbacks
  /\ \E callback \in CallbackObjects :
       event_callbacks' = Append(event_callbacks, callback)
  /\ UNCHANGED <<performance_optimization, event_monitor_running, threads,
                 monitor_log, auto_save, clock>>
  /\ UNCHANGED <<snapVars, storeVars>>

\* manager.start_event_monitoring() when no monitoring is running (it
\* returns at once when the flag is set)
StartEventMonitoring ==
  /\ ~event_monitor_running
  /\ Len(threads) < MaxThreads
  /\ event_monitor_running' = TRUE
  /\ threads' = Append([t \in DOMAIN threads |-> [threads[t] EXCEPT !.after_stop = 0]],
                       [pc |-> "check", after_stop |-> 0])
  /\ UNCHANGED <<performance_optimization, event_callbacks, monitor_log,
                 auto_save, clock>>
  /\ UNCHANGED <<snapVars, storeVars>>

\* manager.stop_event_monitoring()
StopEventMonitoring ==
  /\ event_monitor_running
  /\ event_monitor_running' = FALSE
  /\ UNCHANGED <<performance_optimization, event_callbacks, threads,
                 monitor_log, auto_save, clock>>
  /\ UNCHANGED <<snapVars, storeVars>>

\* _event_monitor_loop: the test of the while condition
LoopCheck(t) ==
  /\ t \in DOMAIN threads
  /\ threads[t].pc = "check"
  /\ threads' = [threads EXCEPT ![t].pc =
                   IF LoopCondition(event_monitor_running) THEN "poll" ELSE "done"]
  /\ UNCHANGED <<performance_optimization, event_monitor_running,
                 event_callbacks, monitor_log, auto_save, clock>>
  /\ UNCHANGED <<snapVars, storeVars>>

\* _event_monitor_loop: self._monitor_hyprland_events(); an exception that
\* leaves it ends the loop and clears the flag
LoopPoll(t) ==
  /\ t \in DOMAIN threads
  /\ threads[t].pc = "poll"
  /\ LET r == _monitor_hyprland_events(env, event_callbacks)
         after == IF event_monitor_running
                  THEN threads[t].after_stop
                  ELSE IF threads[t].after_stop < 2
                       THEN threads[t].after_stop + 1 ELSE 2
     IN /\ monitor_log' = [polled |-> TRUE, seen |-> env.hypr,
                           prev |-> monitor_log.seen, calls |-> r.calls,
                           callbacks |-> event_callbacks, raised |-> r.raised,
                           had_prev |-> monitor_log.polled]
        /\ IF PollOutcome(r.raised) = "returned"
           THEN /\ threads' = [threads EXCEPT ![t] = [pc |-> "sleep", after_stop |-> after]]
                /\ UNCHANGED event_monitor_running
           ELSE /\ threads' = [threads EXCEPT ![t] = [pc |-> "done", after_stop |-> after]]
                /\ event_monitor_running' = FALSE
  /\ UNCHANGED <<performance_optimization, event_callbacks, auto_save, clock>>
  /\ UNCHANGED <<snapVars, storeVars>>

\* _event_monitor_loop: time.sleep(1)
LoopSleep(t) ==
  /\ t \in DOMAIN threads
  /\ threads[t].pc = "sleep"
  /\ threads' = [threads EXCEPT ![t].pc = "check"]
  /\ UNCHANGED <<performance_optimization, event_monitor_running,
                 event_callbacks, monitor_log, auto_save, clock>>
  /\ UNCHANGED <<snapVars, storeVars>>

\* the compositor state changes
DesktopChange ==
  /\ \E e \in MonitorEnvs : e # env /\ env' = e
  /\ UNCHANGED <<clock, snap, prov, artifact, saved, out>>
  /\ UNCHANGED <<storeVars, workerVars>>

LoopStep(t) == LoopCheck(t) \/ LoopPoll(t) \/ LoopSleep(t)

NextMonitor ==
  \/ AddEventCallback
  \/ StartEventMonitoring
  \/ StopEventMonitoring
  \/ \E t \in 1..MaxThreads : LoopCheck(t)
  \/ \E t \in 1..MaxThreads : LoopPoll(t)
  \/ \E t \in 1..MaxThreads : LoopSleep(t)
  \/ DesktopChange

SpecMonitor == InitMonitor /\ [][NextMonitor]_vars

\* monitoring is started once: start_event_monitoring is not called again
\* after a stop
StartOnce == threads = <<>> /\ StartEventMonitoring

NextMonitorOnce ==
  \/ AddEventCallback
  \/ StartOnce
  \/ StopEventMonitoring
  \/ LoopCheck(1)
  \/ LoopPoll(1)
  \/ LoopSleep(1)
  \/ DesktopChange

\* the started thread is scheduled again and again, and each poll and each
\* sleep returns
SpecMonitorFair ==
  /\ InitMonitor
  /\ [][NextMonitorOnce]_vars
  /\ WF_vars(LoopStep(1))

(***************************************************************************)
(* Properties of the snapshot operations.                                  *)
(***************************************************************************)
\* C2: a snapshot that validated, with the content of one field changed
\* since (one component, the timestamp or the session id), is rejected by
\* _validate_state_checksums.
TamperDetected ==
  (out.op = "validate" /\ prov.tampered # "" /\ prov.valid_before)
    => out.ret = PyBool(FALSE)

TamperDetectedWitness ==
  /\ out.op = "validate"
  /\ prov.origin = "loaded"
  /\ prov.tampered = "monitor_layouts"
  /\ prov.valid_before
  /\ out.ret = PyBool(FALSE)

\* C3: the snapshot load_quantum_state returns from the file written by
\* save_quantum_state(S), S captured, equals S in every field.
RoundTripEqual ==
  (prov.origin = "loaded" /\ prov.tampered = ""
     /\ prov.source.prov.origin = "captured")
    => \A f \in Fields : snap[f] = prov.source.state[f]

\* C4: a captured snapshot stores one digest per component and the overall
\* digest, and _validate_state_checksums accepts it, also after it went
\* through save_quantum_state and load_quantum_state.
CapturedStateValidates ==
  /\ (prov.origin = "captured" /\ prov.tampered = "")
       => /\ DOMAIN snap.validation_checksums.v = Components \cup {"overall"}
          /\ \A c \in Components :
               snap.validation_checksums.v[c] = _generate_state_checksum(snap[c])
  /\ (/\ out.op = "validate"
      /\ prov.tampered = ""
      /\ \/ prov.origin = "captured"
         \/ prov.origin = "loaded" /\ prov.source.prov.origin = "captured")
       => out.ret = PyBool(TRUE)

CapturedStateValidatesWitness ==
  /\ out.op = "validate"
  /\ prov.tampered = ""
  /\ prov.origin = "loaded"
  /\ prov.source.prov.origin = "captured"
  /\ Len(snap.system_state.v["network_connections"].v) > 0
  /\ out.ret = PyBool(TRUE)

\* the number of entries hyprctl reports for a topic
LiveCount(topic) == PyLen(Or(topic, EmptyList))

\* C9: validate_state_compatibility returns true exactly when the live
\* monitor count equals the snapshot's and the live workspace count is at
\* least the snapshot's.
CompatibilityGate ==
  out.op = "compat"
    => out.ret = PyBool(/\ LiveCount(out.live.monitors) = PyLen(snap.monitor_layouts)
                        /\ LiveCount(out.live.workspaces) >= PyLen(snap.workspace_states))

\* the legacy key each component is read from
LegacyKey == [monitor_layouts |-> "monitors", workspace_states |-> "workspaces",
              window_states |-> "windows", application_contexts |-> "applications",
              terminal_sessions |-> "terminals", browser_sessions |-> "browsers",
              development_environments |-> "environments", system_state |-> "system"]

\* C10: migrate_legacy_state copies each legacy key to its component (empty
\* list or map when the key is missing) and stamps checksums computed from
\* the new snapshot, whatever checksums the legacy file carries.
MigrationCorrect ==
  (prov.origin = "migrated" /\ prov.tampered = "")
    => LET legacy_data == JsonLoads(prov.source)
           stripped == PyDict([k \in DOMAIN legacy_data.v \ {"validation_checksums"}
                                 |-> legacy_data.v[k]])
       IN /\ \A c \in Components :
               snap[c] = Get(legacy_data, LegacyKey[c],
                             IF c = "system_state" THEN EmptyDict ELSE EmptyList)
          /\ snap.validation_checksums = generate_validation_checksums(snap)
          /\ snap.validation_checksums =
               migrate_legacy_state(JsonDumps(stripped), prov.at).validation_checksums

MigrationCorrectWitness ==
  /\ prov.origin = "migrated"
  /\ prov.tampered = ""
  /\ "validation_checksums" \in DOMAIN JsonLoads(prov.source).v
  /\ "windows" \notin DOMAIN JsonLoads(prov.source).v
  /\ Len(snap.workspace_states.v) = 2
  /\ snap.window_states = EmptyList

(***************************************************************************)
(* Properties of the snapshot store.                                       *)
(***************************************************************************)
\* the files of the backup directory named backup_*
BackupsOf(dir) == {n \in DOMAIN dir : n.backup}

\* C1: after N saves with max_backups = K < N, exactly K backup files
\* remain and they are the backups of the K most recent saves.
BackupRetention ==
  (pc[1] = "idle" /\ hist.faults = 0 /\ hist.saves > max_backups)
    => /\ Cardinality(BackupsOf(backup_dir)) = max_backups
       /\ {backup_dir[n].save : n \in BackupsOf(backup_dir)}
            = (hist.saves - max_backups + 1)..hist.saves

\* C5: once the state file is written, save_quantum_state returns its path
\* and the file keeps the snapshot, whatever fails in the backup copy or in
\* the pruning.
BackupFailureSwallowed ==
  \A m \in DOMAIN pc :
    /\ pc[m] \in {"backup", "listdir", "stat", "remove"}
         => Content(state_dir, job[m].path) = StateDocument(snap)
    /\ (result[m].op = "save" /\ result[m].wrote)
         => /\ result[m].status = "returned"
            /\ Content(state_dir, result[m].value) = StateDocument(snap)

BackupFailureSwallowedWitness ==
  /\ hist.saves = 1
  /\ hist.faults = 1
  /\ result[1].op = "save"
  /\ result[1].wrote
  /\ result[1].status = "returned"
  /\ BackupsOf(backup_dir) = {}

\* C6: when a pruner finds a file it selected for deletion already removed
\* by the other instance, the missing file is ignored and pruning still
\* completes: once both instances have finished, at most max_backups
\* backup files remain.
PruningRaceBenign ==
  (hist.race /\ \A m \in DOMAIN pc : pc[m] = "idle")
    => Cardinality(BackupsOf(backup_dir)) <= max_backups

\* content that is no snapshot document
Undecodable(content) ==
  \/ content \in {Absent, Garbage}
  \/ JsonLoads(content).t # "dict"
  \/ JsonLoads(content).t = "dict" /\ DOMAIN JsonLoads(content).v # Fields

\* C7: load_quantum_state raises when the file is absent or holds no
\* snapshot document; it then returns no snapshot, and no load changes a
\* state file or a backup.
LoadFailureRaises ==
  [][\A m \in DOMAIN pc :
       (result'[m] # result[m] /\ result'[m].op = "load")
         => /\ state_dir' = state_dir
            /\ backup_dir' = backup_dir
            /\ Undecodable(result'[m].seen)
                 => result'[m].status = "raised" /\ result'[m].value = PyNone]_vars

LoadFailureRaisesWitness ==
  /\ result[1].op = "load"
  /\ result[1].status = "raised"
  /\ result[1].seen = PartialDocument

\* C8: get_compatible_states returns every file name that was saved with
\* save_quantum_state and loads.
ListsSavedStates ==
  \A m \in DOMAIN pc :
    result[m].op = "list" => result[m].seen.v \subseteq result[m].value.v

(***************************************************************************)
(* Properties of the bulk capturers.                                       *)
(***************************************************************************)
\* what hyprctl answered for a topic, [] when it answered nothing
Answered(topic) == Or(env.hypr[topic], EmptyList).v

\* C11: when hyprctl answers nothing for clients, capture_workspace_states
\* returns one record per workspace, each with an empty client list, and
\* does not raise; when it answers nothing for monitors, workspaces or
\* clients, the capturer of that topic returns an empty list.
AdapterAbsenceTolerated ==
  /\ (out.op = "capture_workspace_states" /\ env.hypr.clients = PyNone)
       => /\ out.ret # Raised
          /\ Len(out.ret.v) = Len(Answered("workspaces"))
          /\ \A i \in 1..Len(out.ret.v) : out.ret.v[i].v.clients = EmptyList
  /\ (out.op = "capture_monitor_layouts" /\ env.hypr.monitors = PyNone)
       => out.ret = EmptyList
  /\ (out.op = "capture_workspace_states" /\ env.hypr.workspaces = PyNone)
       => out.ret = EmptyList
  /\ (out.op = "capture_window_states" /\ env.hypr.clients = PyNone)
       => out.ret = EmptyList

\* the bulk capturers
BulkCapturers == {"capture_monitor_layouts", "capture_workspace_states",
                  "capture_window_states", "capture_application_contexts"}

\* C12: whatever hyprctl answers, entries without id or class included, no
\* bulk capturer raises, the record of every workspace that has an id is
\* returned, and capture_quantum_state is not aborted.
PerItemFailurePolicy ==
  /\ out.op \in BulkCapturers \cup {"capture"} => out.ret # Raised
  /\ out.op = "capture_workspace_states"
       => \A i \in 1..Len(Answered("workspaces")) :
            "id" \in DOMAIN Answered("workspaces")[i].v
              => \E j \in 1..Len(out.ret.v) :
                   out.ret.v[j].v.id = Answered("workspaces")[i].v.id

\* C13: a window is marked active exactly when activewindow was answered
\* and its address equals the window's; with no activewindow no window is
\* active, and with unique addresses at most one is.
ActiveFlag ==
  out.op = "capture_window_states"
    => /\ \A i \in 1..Len(out.ret.v) :
            out.ret.v[i].v.active
              = PyBool(/\ env.hypr.activewindow # PyNone
                       /\ GetN(env.hypr.activewindow, "address")
                            = GetN(Answered("clients")[i], "address"))
       /\ env.hypr.activewindow = PyNone
            => \A i \in 1..Len(out.ret.v) : out.ret.v[i].v.active = PyBool(FALSE)
       /\ Cardinality({i \in 1..Len(out.ret.v) :
                         out.ret.v[i].v.active = PyBool(TRUE)}) <= 1


(***************************************************************************)
(* The auto-save worker: start_auto_save and the thread running            *)
(* auto_save_loop.                                                         *)
(***************************************************************************)
MaxFailed == 2

\* the intervals callers pass, in seconds
Intervals == {1, 2}

\* a desktop whose capture succeeds and one whose capture raises
AutoSaveEnvs == {QuietEnv, MkEnv(PyNone, PyList(<<WsNoId>>), DesktopNone)}

\* f"auto_save_{int(time.time())}.json"
AutoSaveName(now) == FileName("auto_save_", PyInt(Sec(now)))

\* except Exception in auto_save_loop: the error is logged and the loop goes
\* on to the next time.sleep(interval).
\* variant: the error leaves auto_save_loop and the thread ends
AfterCycleError_exit == "dead"

AfterCycleError == "sleep"

InitAutoSave ==
  /\ env \in AutoSaveEnvs
  /\ clock = 0
  /\ snap = PyNone
  /\ prov = NoProv
  /\ artifact = Absent
  /\ saved = PyNone
  /\ out = NoOut
  /\ state_dir = <<>>
  /\ backup_dir = <<>>
  /\ max_backups \in 1..MaxBackups
  /\ pc = <<>>
  /\ job = <<>>
  /\ result = <<>>
  /\ hist = <<>>
  /\ WorkersIdle

\* manager.start_auto_save(interval)
StartAutoSave ==
  /\ auto_save.pc = "none"
  /\ \E interval \in Intervals :
       auto_save' = [NoWorker EXCEPT !.pc = "sleep", !.interval = interval]
  /\ UNCHANGED <<performance_optimization, event_monitor_running,
                 event_callbacks, threads, monitor_log, clock>>
  /\ UNCHANGED <<snapVars, storeVars>>

\* auto_save_loop: time.sleep(interval)
AutoSaveSleep ==
  /\ auto_save.pc = "sleep"
  /\ auto_save' = [auto_save EXCEPT !.pc = "cycle"]
  /\ clock' = IF clock + auto_save.interval * TicksPerSec <= MaxClock
              THEN clock + auto_save.interval * TicksPerSec
              ELSE MaxClock
  /\ UNCHANGED <<performance_optimization, event_monitor_running,
                 event_callbacks, threads, monitor_log>>
  /\ UNCHANGED <<snapVars, storeVars>>

\* the worker after a cycle that failed, and after one that saved
CycleFailed ==
  auto_save' = [auto_save EXCEPT
                  !.pc = AfterCycleError, !.last = "failed",
                  !.failed = IF @ < MaxFailed THEN @ + 1 ELSE @]

CycleSaved ==
  auto_save' = [auto_save EXCEPT !.pc = "sleep", !.last = "saved", !.failed = 0]

\* auto_save_loop: state = self.capture_quantum_state(), the first
\* statement of the try block
AutoSaveCapture ==
  /\ auto_save.pc = "cycle"
  /\ LET state == capture_quantum_state(env, clock)
     IN IF state = Raised
        THEN /\ CycleFailed
             /\ UNCHANGED snap
        ELSE /\ auto_save' = [auto_save EXCEPT !.pc = "save"]
             /\ snap' = state
  /\ UNCHANGED <<env, clock, prov, artifact, saved, out>>
  /\ UNCHANGED storeVars
  /\ UNCHANGED <<performance_optimization, event_monitor_running,
                 event_callbacks, threads, monitor_log>>

\* auto_save_loop: self.save_quantum_state(state, name) with its backup and
\* pruning. open or json.dump may fail; a failure of shutil.copy2 or
\* os.listdir is swallowed inside save_quantum_state
AutoSaveSave ==
  /\ auto_save.pc = "save"
  /\ LET name == AutoSaveName(clock)
         document == StateDocument(snap)
     IN \E outcome \in {"open_fails", "dump_fails", "copy_fails",
                        "listdir_fails", "saved"} :
          CASE outcome = "open_fails" ->
                 /\ CycleFailed
                 /\ UNCHANGED <<state_dir, backup_dir>>
            [] outcome = "dump_fails" ->
                 /\ CycleFailed
                 /\ state_dir' = (name :> Garbage) @@ state_dir
                 /\ UNCHANGED backup_dir
            [] outcome = "copy_fails" ->
                 /\ CycleSaved
                 /\ state_dir' = (name :> document) @@ state_dir
                 /\ UNCHANGED backup_dir
            [] OTHER ->
                 LET copied == (BackupName(name, clock) :>
                                  [ctime |-> clock, content |-> document,
                                   save |-> 0]) @@ backup_dir
                     listing == {n \in DOMAIN copied : n.backup}
                 IN /\ CycleSaved
                    /\ state_dir' = (name :> document) @@ state_dir
                    /\ IF outcome = "listdir_fails"
                       THEN backup_dir' = copied
                       ELSE \E backup_files \in SortedByCtime(listing, copied) :
                              LET todo == files_to_remove(backup_files, max_backups)
                              IN backup_dir' =
                                   [n \in DOMAIN copied \ {todo[i] : i \in DOMAIN todo}
                                      |-> copied[n]]
  /\ snap' = PyNone
  /\ UNCHANGED <<env, clock, prov, artifact, saved, out>>
  /\ UNCHANGED <<max_backups, pc, job, result, hist>>
  /\ UNCHANGED <<performance_optimization, event_monitor_running,
                 event_callbacks, threads, monitor_log>>

\* the compositor state changes between cycles
WorkspaceChange ==
  /\ \E e \in AutoSaveEnvs : e # env /\ env' = e
  /\ UNCHANGED <<clock, snap, prov, artifact, saved, out>>
  /\ UNCHANGED <<storeVars, workerVars>>

NextAutoSave ==
  \/ StartAutoSave
  \/ AutoSaveSleep
  \/ AutoSaveCapture
  \/ AutoSaveSave
  \/ WorkspaceChange

SpecAutoSave == InitAutoSave /\ [][NextAutoSave]_vars

\* the worker thread is scheduled again and again, and time.sleep, the
\* capture and the save return
SpecAutoSaveFair ==
  /\ InitAutoSave
  /\ [][NextAutoSave]_vars
  /\ WF_vars(AutoSaveSleep \/ AutoSaveCapture \/ AutoSaveSave)

(***************************************************************************)
(* The optimization pass, optimize_state_capture.  dict.copy() is shallow: *)
(* a nested dict of the copy is the nested dict of the input, so what the  *)
(* pass assigns into it is assigned in the input too.  Each helper gives   *)
(* the list it returns (ret, Raised when it raises) and the list the       *)
(* caller passed in as it is afterwards (input).                           *)
(***************************************************************************)
\* essential_vars
EssentialVars == {"PWD", "TERM", "SHELL", "PATH", "HOME", "USER"}

\* the keys of the model's session data for which key.endswith("_files")
FilesKeys == {"open_files"}

\* os.path.basename(f) for every f of the lists under the _files keys of
\* session_data
BasenamedFiles(session_data) ==
  IF session_data.t # "dict"
  THEN session_data
  ELSE PyDict([key \in DOMAIN session_data.v |->
         IF key \in FilesKeys /\ session_data.v[key].t = "list"
         THEN PyList([i \in 1..Len(session_data.v[key].v) |->
                        PyStr(Basename(session_data.v[key].v[i].v))])
         ELSE session_data.v[key]])

_optimize_application_contexts(contexts) ==
  LET optimized_context(context) ==
        IF "session_data" \in DOMAIN context.v
        THEN PyDict([context.v EXCEPT !["session_data"] = BasenamedFiles(@)])
        ELSE context
      optimized == PyList(MapSeq(contexts.v, optimized_context))
  IN [ret |-> optimized, input |-> optimized]

\* {k: v for k, v in env["environment_variables"].items() if k in essential_vars}
OnlyEssential(environment_variables) ==
  PyDict([k \in DOMAIN environment_variables.v \cap EssentialVars |->
            environment_variables.v[k]])

_optimize_terminal_sessions(sessions) ==
  LET optimized_session(session) ==
        IF /\ "environment" \in DOMAIN session.v
           /\ "environment_variables" \in DOMAIN session.v["environment"].v
        THEN PyDict([session.v EXCEPT !["environment"] =
               PyDict([@.v EXCEPT !["environment_variables"] = OnlyEssential(@)])])
        ELSE session
      optimized == PyList(MapSeq(sessions.v, optimized_session))
  IN [ret |-> optimized, input |-> optimized]

\* os.path.basename(None) raises TypeError: the loop ends at the first
\* session whose session_file is None, after the sessions before it were
\* changed
_optimize_browser_sessions(sessions) ==
  LET has_file(session) ==
        /\ "session_data" \in DOMAIN session.v
        /\ "session_file" \in DOMAIN session.v["session_data"].v
      raises(session) ==
        has_file(session) /\ session.v["session_data"].v["session_file"].t # "str"
      optimized_session(session) ==
        IF has_file(session) /\ ~raises(session)
        THEN PyDict([session.v EXCEPT !["session_data"] =
               PyDict([@.v EXCEPT !["session_file"] = PyStr(Basename(@.v))])])
        ELSE session
      n == Len(sessions.v)
      done == IF \E i \in 1..n : raises(sessions.v[i])
              THEN (CHOOSE i \in 1..n :
                      /\ raises(sessions.v[i])
                      /\ \A j \in 1..(i - 1) : ~raises(sessions.v[j])) - 1
              ELSE n
      after == PyList([i \in 1..n |->
                 IF i <= done THEN optimized_session(sessions.v[i]) ELSE sessions.v[i]])
  IN [ret |-> IF done < n THEN Raised ELSE after, input |-> after]

\* the components optimize_state_capture hands to the new QuantumState as
\* they are: the result holds the input's own lists and dicts
SharedComponents ==
  {"monitor_layouts", "workspace_states", "window_states",
   "development_environments", "system_state", "validation_checksums"}

\* the nested dicts the shallow copies of the result share with the input
SharedRecords(state) ==
  LET lists == {"application_contexts", "terminal_sessions", "browser_sessions"}
      paths == UNION {{<<field, i, key>> :
                         i \in 1..Len(state[field].v),
                         key \in {"session_data", "environment"}} :
                      field \in lists}
  IN {path \in paths : path[3] \in DOMAIN state[path[1]].v[path[2]].v}

\* optimize_state_capture(state) under the configuration value
\* performance_optimization: the returned snapshot (Raised when a helper
\* raises), the input as it is after the call, and the mutable records the
\* result shares with the input
optimize_state_capture(state, enabled) ==
  IF ~enabled
  THEN [ret |-> state, input |-> state, shared |-> {<<"state">>}]
  ELSE LET apps == _optimize_application_contexts(state.application_contexts)
           terminals == _optimize_terminal_sessions(state.terminal_sessions)
           browsers == _optimize_browser_sessions(state.browser_sessions)
           after == [state EXCEPT !.application_contexts = apps.input,
                                  !.terminal_sessions = terminals.input,
                                  !.browser_sessions = browsers.input]
       IN IF browsers.ret = Raised
          THEN [ret |-> Raised, input |-> after, shared |-> {}]
          ELSE [ret |-> [state EXCEPT !.application_contexts = apps.ret,
                                      !.terminal_sessions = terminals.ret,
                                      !.browser_sessions = browsers.ret],
                input |-> after,
                shared |-> {<<field>> : field \in SharedComponents}
                           \cup SharedRecords(state)]

\* the desktops whose snapshots are optimized: Firefox with and without a
\* session file
OptimizeEnvs ==
  {MkEnv(PyList(<<Mon1>>), w, d) :
     w \in {PyNone, PyList(<<Ws1, Ws2>>)},
     d \in {DesktopNone, DesktopKitty, DesktopFull,
            [DesktopFull EXCEPT !.firefox_session = PyNone]}}

InitOptimize ==
  /\ env \in OptimizeEnvs
  /\ clock = 0
  /\ snap = PyNone
  /\ prov = NoProv
  /\ artifact = Absent
  /\ saved = PyNone
  /\ out = NoOut
  /\ StoreIdle
  /\ WorkersIdle

\* self.config["performance_optimization"] is set to the other value
SetOptimization ==
  /\ performance_optimization' = ~performance_optimization
  /\ UNCHANGED <<event_monitor_running, event_callbacks, threads, monitor_log,
                 auto_save, clock>>
  /\ UNCHANGED <<snapVars, storeVars>>

\* optimized = manager.optimize_state_capture(state); state is the
\* caller's snapshot afterwards
OptimizeState ==
  /\ snap # PyNone
  /\ LET r == optimize_state_capture(snap, performance_optimization)
     IN /\ snap' = r.input
        /\ out' = [op |-> "optimize", ret |-> r.ret, before |-> snap,
                   shared |-> r.shared, enabled |-> performance_optimization]
  /\ UNCHANGED <<env, clock, prov, artifact, saved>>
  /\ UNCHANGED <<storeVars, workerVars>>

NextOptimize ==
  \/ CaptureState
  \/ SetOptimization
  \/ OptimizeState
  \/ Tick

SpecOptimize == InitOptimize /\ [][NextOptimize]_vars

(***************************************************************************)
(* Invocations of capture_quantum_state on one manager by the threads that *)
(* use it: the caller's thread and the auto-save worker.  An invocation    *)
(* reads the time for its session id, runs the capturers, which take the   *)
(* second that psutil.cpu_percent(interval=1) blocks, and returns.         *)
(***************************************************************************)
CallerThreads == {"main", "auto_save_loop"}

InitIds ==
  /\ env = QuietEnv
  /\ clock = 0
  /\ snap = PyNone
  /\ prov = NoProv
  /\ artifact = Absent
  /\ saved = PyNone
  /\ out = NoOut
  /\ state_dir = <<>>
  /\ backup_dir = <<>>
  /\ max_backups = 10
  /\ pc = [c \in CallerThreads |-> "idle"]
  /\ job = [c \in CallerThreads |-> [began |-> 0, state |-> PyNone]]
  /\ result = <<>>
  /\ hist = NoHist
  /\ WorkersIdle

\* capture_quantum_state: session_id = f"quantum_{int(time.time())}"
CaptureBegin(c) ==
  /\ pc[c] = "idle"
  /\ hist.saves < MaxSaves
  /\ pc' = [pc EXCEPT ![c] = "capturing"]
  /\ job' = [job EXCEPT ![c] = [began |-> clock, state |-> PyNone]]
  /\ hist' = [hist EXCEPT !.saves = @ + 1]
  /\ UNCHANGED <<state_dir, backup_dir, max_backups, result, clock>>
  /\ UNCHANGED <<snapVars, workerVars>>

\* capture_quantum_state: the capturers have run and the snapshot is
\* returned, a second or more after the session id was made
CaptureReturn(c) ==
  /\ pc[c] = "capturing"
  /\ clock >= job[c].began + TicksPerSec
  /\ pc' = [pc EXCEPT ![c] = "captured"]
  /\ job' = [job EXCEPT ![c].state = capture_quantum_state(env, job[c].began)]
  /\ result' = Append(result, [thread |-> c, began |-> job[c].began,
                               session_id |-> Sid("quantum_", Sec(job[c].began))])
  /\ UNCHANGED <<state_dir, backup_dir, max_backups, hist, clock>>
  /\ UNCHANGED <<snapVars, workerVars>>

\* save_quantum_state(state) under the default name, the write of the file
SaveDefault(c) ==
  /\ pc[c] = "captured"
  /\ pc' = [pc EXCEPT ![c] = "idle"]
  /\ state_dir' = (DefaultName(job[c].state) :>
                     [content |-> StateDocument(job[c].state), thread |-> c,
                      began |-> job[c].began]) @@ state_dir
  /\ UNCHANGED <<backup_dir, max_backups, job, result, hist, clock>>
  /\ UNCHANGED <<snapVars, workerVars>>

NextIds ==
  \/ \E c \in CallerThreads : CaptureBegin(c)
  \/ \E c \in CallerThreads : CaptureReturn(c)
  \/ \E c \in CallerThreads : SaveDefault(c)
  \/ Tick

SpecIds == InitIds /\ [][NextIds]_vars

(***************************************************************************)
(* The command line: main() with the mode its arguments select, run in a   *)
(* process of its own on the directories it finds.                         *)
(***************************************************************************)
Modes == {"capture_save", "load_restore", "auto_save", "validate",
          "migrate_legacy", "test"}

\* the position of a file name in sorted(compatible_states): migrated_
\* sorts before old, old before quantum_, and the seconds of the model have
\* one digit
NameOrder(file) ==
  CASE file.stem.t = "sid" /\ file.stem.v[1] = "quantum_" -> 200 + file.stem.v[2]
    [] file.stem.t = "sid" -> 0 + file.stem.v[2]
    [] OTHER -> 100

\* manager.get_compatible_states()
get_compatible_states(dir) ==
  {file \in Loadable(dir) : file.prefix = "quantum_state_" /\ file.ext = ".json"}

\* save_quantum_state(state) when no operating-system fault occurs and
\* fewer backups than max_backups exist.  dirs.exists tells which of the
\* directories exist: open() raises FileNotFoundError in a directory that
\* was removed, which save_quantum_state raises again, and shutil.copy2
\* raises it inside _create_backup, which logs it.  Nothing creates a
\* directory here
save_quantum_state(dirs, state, now) ==
  LET name == DefaultName(state)
  IN IF ~dirs.exists.state_dir
     THEN [dirs EXCEPT !.ret = Raised]
     ELSE [dirs EXCEPT
             !.state_dir = (name :> StateDocument(state)) @@ @,
             !.backup_dir = IF dirs.exists.backup_dir
                            THEN (BackupName(name, now) :>
                                    [ctime |-> now, content |-> StateDocument(state),
                                     save |-> 0]) @@ @
                            ELSE @,
             !.ret = name]

\* the directories as __init__ leaves them: both exist
Dirs(files, backups) ==
  [state_dir |-> files, backup_dir |-> backups,
   exists |-> [state_dir |-> TRUE, backup_dir |-> TRUE], ret |-> PyNone]

\* the loop of main over legacy_files: each file is migrated and saved, and
\* an exception of either is printed and the loop goes on
RECURSIVE MigrateFiles(_, _, _, _)
MigrateFiles(legacy_files, legacy_dir, dirs, now) ==
  IF legacy_files = <<>>
  THEN [dirs |-> dirs, migrated_count |-> 0, failed |-> {}]
  ELSE LET quantum_state == migrate_legacy_state(legacy_dir[Head(legacy_files)], now)
           saved_dirs == IF quantum_state = Raised THEN dirs
                         ELSE save_quantum_state(dirs, quantum_state, now)
           rest == MigrateFiles(Tail(legacy_files), legacy_dir, saved_dirs, now)
       IN IF quantum_state = Raised
          THEN [rest EXCEPT !.failed = @ \cup {Head(legacy_files)}]
          ELSE [rest EXCEPT !.migrated_count = @ + 1]

\* load the latest compatible state and validate it against the live
\* desktop: the modes --load --restore and --validate
LoadLatest(e, dirs) ==
  LET compatible_states == get_compatible_states(dirs.state_dir)
      latest_state == CHOOSE file \in compatible_states :
                        \A other \in compatible_states :
                          NameOrder(other) <= NameOrder(file)
      state == load_quantum_state(dirs.state_dir[latest_state])
  IN IF compatible_states = {}
     THEN [ret |-> 1, failures |-> {"no compatible state"}, dirs |-> dirs]
     ELSE IF validate_state_compatibility(e, state)
          THEN [ret |-> 0, failures |-> {}, dirs |-> dirs]
          ELSE [ret |-> 1, failures |-> {"compatibility validation"}, dirs |-> dirs]

\* main(): the exit code, the failures the mode met on its way and the
\* directories afterwards; order is the order os.listdir gave the legacy
\* files in
main(mode, e, dirs, legacy_dir, order, now) ==
  LET state == capture_quantum_state(e, now)
  IN CASE mode = "capture_save" ->
            IF state = Raised
            THEN [ret |-> 1, failures |-> {"capture"}, dirs |-> dirs]
            ELSE [ret |-> 0, failures |-> {},
                  dirs |-> save_quantum_state(dirs, state, now + TicksPerSec)]
       [] mode \in {"load_restore", "validate"} -> LoadLatest(e, dirs)
       [] mode = "auto_save" -> [ret |-> 0, failures |-> {}, dirs |-> dirs]
       [] mode = "migrate_legacy" ->
            IF order = <<>>
            THEN [ret |-> 1, failures |-> {"no legacy file"}, dirs |-> dirs]
            ELSE LET done == MigrateFiles(order, legacy_dir, dirs, now)
                 IN [ret |-> 0,
                     failures |-> IF done.failed = {} THEN {} ELSE {"migration"},
                     dirs |-> done.dirs]
       [] OTHER ->
            IF state = Raised
            THEN [ret |-> 1, failures |-> {"capture"}, dirs |-> dirs]
            ELSE LET saved_dirs == save_quantum_state(dirs, state, now + TicksPerSec)
                     loaded_state == load_quantum_state(
                                       saved_dirs.state_dir[DefaultName(state)])
                 IN IF _validate_state_checksums(loaded_state)
                    THEN [ret |-> 0, failures |-> {}, dirs |-> saved_dirs]
                    ELSE [ret |-> 1, failures |-> {"checksum validation"},
                          dirs |-> saved_dirs]

\* the files of a legacy directory
LegacyName(prefix, ext) == [prefix |-> prefix, stem |-> PyStr("1"), ext |-> ext]
LegacyDirs ==
  LET good == LegacyName("session_", ".json") :> JsonDumps(PyDict(LegacyFull))
      bad == LegacyName("notes_", ".txt") :> Garbage
      skipped == LegacyName("quantum_state_", ".json") :> Garbage
      other == LegacyName("layout_", ".cfg") :> Garbage
  IN {<<>>, good, bad, good @@ bad, skipped @@ other, good @@ skipped}

\* the state directories main finds: empty, or with the snapshot of a
\* desktop with one monitor, or with that and a file that does not load
MainDirs ==
  LET state == capture_quantum_state(MkEnv(PyList(<<Mon1>>), PyList(<<Ws1>>), DesktopKitty), 0)
      one == DefaultName(state) :> StateDocument(state)
  IN {<<>>, one, (OldName :> PartialDocument) @@ one, OldName :> Garbage}

MainEnvs == {QuietEnv, MkEnv(PyList(<<Mon1>>), PyList(<<Ws1>>), DesktopKitty),
             MkEnv(PyList(<<Mon1>>), PyList(<<Ws1, WsNoId>>), DesktopNone)}

InitMain ==
  /\ env \in MainEnvs
  /\ clock = 0
  /\ snap = PyNone
  /\ prov = NoProv
  /\ artifact = Absent
  /\ saved = PyNone
  /\ out = NoOut
  /\ state_dir \in MainDirs
  /\ backup_dir = <<>>
  /\ max_backups = 10
  /\ pc = <<>>
  /\ job \in LegacyDirs
  /\ result = <<>>
  /\ hist = <<>>
  /\ WorkersIdle

\* one run of the program; job holds the legacy directory
RunMain ==
  /\ out = NoOut
  /\ \E mode \in Modes :
       \E order \in OrdersOf({file \in DOMAIN job :
                                /\ file.ext \in {".json", ".txt"}
                                /\ file.prefix # "quantum_state_"}) :
         LET r == main(mode, env, Dirs(state_dir, backup_dir), job, order, clock)
         IN /\ out' = [op |-> "main", mode |-> mode, ret |-> r.ret,
                       failures |-> r.failures]
            /\ state_dir' = r.dirs.state_dir
            /\ backup_dir' = r.dirs.backup_dir
  /\ UNCHANGED <<env, clock, snap, prov, artifact, saved>>
  /\ UNCHANGED <<max_backups, pc, job, result, hist>>
  /\ UNCHANGED workerVars

SpecMain == InitMain /\ [][RunMain]_vars

(***************************************************************************)
(* The directories of a manager: __init__ makes them, and another program  *)
(* may remove them while the manager lives.                                *)
(***************************************************************************)
InitDirs ==
  /\ env \in {QuietEnv, MkEnv(PyList(<<Mon1>>), PyList(<<Ws1>>), DesktopKitty)}
  /\ clock = 0
  /\ snap = PyNone
  /\ prov = NoProv
  /\ artifact = Absent
  /\ saved = PyNone
  /\ out = NoOut
  /\ state_dir = <<>>
  /\ backup_dir = <<>>
  /\ max_backups = 10
  /\ pc = <<>>
  /\ job = Dirs(<<>>, <<>>).exists
  /\ result = <<>>
  /\ hist = [removed |-> FALSE]
  /\ WorkersIdle

\* shutil.rmtree(manager.state_dir): the backup directory lies inside it;
\* job tells which directories exist
RemoveStateDir ==
  /\ job.state_dir
  /\ state_dir' = <<>>
  /\ backup_dir' = <<>>
  /\ job' = [state_dir |-> FALSE, backup_dir |-> FALSE]
  /\ hist' = [removed |-> TRUE]
  /\ UNCHANGED <<max_backups, pc, result, clock>>
  /\ out' = NoOut
  /\ UNCHANGED <<env, snap, prov, artifact, saved>>
  /\ UNCHANGED workerVars

\* shutil.rmtree(manager.backup_dir)
RemoveBackupDir ==
  /\ job.backup_dir
  /\ backup_dir' = <<>>
  /\ job' = [job EXCEPT !.backup_dir = FALSE]
  /\ hist' = [removed |-> TRUE]
  /\ UNCHANGED <<state_dir, max_backups, pc, result, clock>>
  /\ out' = NoOut
  /\ UNCHANGED <<env, snap, prov, artifact, saved>>
  /\ UNCHANGED workerVars

\* saved_path = manager.save_quantum_state(state); the caller drops the
\* snapshot afterwards
SaveSnapshot ==
  /\ snap # PyNone
  /\ LET r == save_quantum_state([Dirs(state_dir, backup_dir) EXCEPT !.exists = job],
                                 snap, clock)
     IN /\ state_dir' = r.state_dir
        /\ backup_dir' = r.backup_dir
        /\ job' = r.exists
        /\ out' = [op |-> "save", ret |-> r.ret, after_removal |-> hist.removed]
  /\ snap' = PyNone
  /\ prov' = NoProv
  /\ hist' = [removed |-> FALSE]
  /\ UNCHANGED <<env, clock, artifact, saved>>
  /\ UNCHANGED <<max_backups, pc, result>>
  /\ UNCHANGED workerVars

\* QuantumStateManager(session_dir) is constructed again on the same
\* session directory: __init__ makes the directories that are missing
MakeDirs ==
  /\ ~job.state_dir \/ ~job.backup_dir
  /\ job' = [state_dir |-> TRUE, backup_dir |-> TRUE]
  /\ hist' = [removed |-> FALSE]
  /\ UNCHANGED <<state_dir, backup_dir, max_backups, pc, result, clock>>
  /\ out' = NoOut
  /\ UNCHANGED <<env, snap, prov, artifact, saved>>
  /\ UNCHANGED workerVars

NextDirs ==
  \/ CaptureState
  \/ RemoveStateDir
  \/ RemoveBackupDir
  \/ SaveSnapshot
  \/ MakeDirs
  \/ Tick

SpecDirs == InitDirs /\ [][NextDirs]_vars

(***************************************************************************)
(* quantum-state-config.py: configurations.  A configuration object is a   *)
(* record of its metadata and its settings objects; a member of an Enum    *)
(* class is a value of its own kind, different from the string it carries. *)
(***************************************************************************)
Enum(value) == [t |-> "enum", v |-> value]

\* CoreQuantumSettings(): three of its fields
CoreQuantumSettings ==
  [auto_save_interval |-> PyInt(300),
   state_validation_enabled |-> PyBool(TRUE),
   validation_level |-> Enum("basic")]

\* PerformanceOptimizationSettings(): two of its fields
PerformanceOptimizationSettings ==
  [compression_method |-> Enum("gzip"),
   compression_level |-> PyInt(6)]

\* QuantumConfiguration()
QuantumConfiguration ==
  [config_version |-> PyStr("1.0.0"),
   core |-> CoreQuantumSettings,
   performance |-> PerformanceOptimizationSettings]

\* the fields of a configuration that hold a settings object
Categories == {"core", "performance"}

\* serialize_enums on a field value
serialize_enums(obj) == IF obj.t = "enum" THEN PyStr(obj.v) ELSE obj

\* config.to_dict()
to_dict(config) ==
  PyDict([k \in DOMAIN config |->
            IF k \in Categories
            THEN PyDict([f \in DOMAIN config[k] |->
                           serialize_enums(config[k][f])])
            ELSE config[k]])

RECURSIVE _deep_merge(_, _)
_deep_merge(base, update) ==
  PyDict([key \in DOMAIN base.v \cup DOMAIN update.v |->
            IF key \notin DOMAIN update.v
            THEN base.v[key]
            ELSE IF /\ key \in DOMAIN base.v
                    /\ base.v[key].t = "dict"
                    /\ update.v[key].t = "dict"
                 THEN _deep_merge(base.v[key], update.v[key])
                 ELSE update.v[key]])

\* Cls(**d) of a settings dataclass with the given defaults: a TypeError
\* when d is no mapping or names a field the class does not have
Settings(defaults, d) ==
  IF d.t # "dict" \/ ~(DOMAIN d.v \subseteq DOMAIN defaults)
  THEN Raised
  ELSE [f \in DOMAIN defaults |->
          IF f \in DOMAIN d.v THEN d.v[f] ELSE defaults[f]]

from_dict(config_dict) ==
  LET core == Settings(CoreQuantumSettings,
                       Get(config_dict, "core", EmptyDict))
      performance == Settings(PerformanceOptimizationSettings,
                              Get(config_dict, "performance", EmptyDict))
  IN IF "t" \in DOMAIN core \/ "t" \in DOMAIN performance
     THEN QuantumConfiguration
     ELSE [config_version |->
             Get(config_dict, "config_version", PyStr("1.0.0")),
           core |-> core,
           performance |-> performance]

\* config.merge_with(other_config)
merge_with(config, other_config) ==
  from_dict(_deep_merge(to_dict(config), other_config))

\* base configurations: the default one and ones with other values
BaseConfigs ==
  {[QuantumConfiguration EXCEPT
      !.core.auto_save_interval = PyInt(i),
      !.core.validation_level = Enum(l),
      !.performance.compression_level = PyInt(c)] :
     i \in {300, 120}, l \in {"basic", "strict"}, c \in {6, 9}}

\* update dictionaries; the first is the one of test_configuration_merging
UpdateDicts ==
  {PyDict("core" :> PyDict("auto_save_interval" :> PyInt(600))),
   PyDict("core" :> PyDict("auto_save_interval" :> PyInt(900)
                           @@ "state_validation_enabled" :> PyBool(FALSE))),
   PyDict("core" :> PyDict("validation_level" :> PyStr("paranoid"))),
   PyDict("performance" :> PyDict("compression_level" :> PyInt(1))),
   PyDict("config_version" :> PyStr("2.0.0")),
   PyDict("config_version" :> PyStr("2.0.0")
          @@ "performance" :> PyDict("compression_method" :> PyStr("zstd"))),
   PyDict("core" :> PyDict("auto_save_timeout" :> PyInt(600))),
   EmptyDict}

InitMerge ==
  /\ env = QuietEnv
  /\ clock = 0
  /\ snap = PyNone
  /\ prov = NoProv
  /\ artifact = Absent
  /\ saved = PyNone
  /\ out = NoOut
  /\ state_dir = <<>>
  /\ backup_dir = <<>>
  /\ max_backups = 10
  /\ pc = <<>>
  /\ job \in [base : BaseConfigs, update : UpdateDicts]
  /\ result = <<>>
  /\ hist = NoHist
  /\ WorkersIdle

\* merged_config = base_config.merge_with(update_config)
MergeWith ==
  /\ out = NoOut
  /\ out' = [op |-> "merge_with", ret |-> merge_with(job.base, job.update)]
  /\ UNCHANGED <<env, snap, prov, artifact, saved, clock>>
  /\ UNCHANGED storeVars
  /\ UNCHANGED workerVars

SpecMerge == InitMerge /\ [][MergeWith]_vars

(***************************************************************************)
(* The callback registry while the monitor worker dispatches one event in  *)
(* _handle_client_changes.  `for callback in self.event_callbacks` walks   *)
(* the list object itself with a position that counts up; the main thread  *)
(* appends to and removes from the same list between two steps of the walk.*)
(***************************************************************************)
CbSaver == [id |-> "saver", methods |-> AllMethods, raises |-> FALSE]
RegistryCallbacks == {CbLogger, CbSaver, CbFaulty}

\* the callbacks in the list
Registered(callbacks) == {callbacks[i] : i \in DOMAIN callbacks}

\* list.remove(x): the list without its first element equal to x
ListRemove(list, x) ==
  LET first == CHOOSE i \in DOMAIN list :
                 list[i] = x /\ \A j \in 1..(i - 1) : list[j] # x
  IN SubSeq(list, 1, first - 1) \o SubSeq(list, first + 1, Len(list))

\* the worker has entered the for loop of _handle_client_changes;
\* monitor_log.stayed holds the callbacks registered since then
InitRegistry ==
  /\ env = DesktopBusy
  /\ clock = 0
  /\ snap = PyNone
  /\ prov = NoProv
  /\ artifact = Absent
  /\ saved = PyNone
  /\ out = NoOut
  /\ StoreIdle
  /\ performance_optimization = TRUE
  /\ event_monitor_running = TRUE
  /\ event_callbacks \in UNION {OrdersOf(S) : S \in SUBSET RegistryCallbacks}
  /\ threads = <<[pc |-> "iterate", index |-> 0]>>
  /\ monitor_log = [calls |-> <<>>, stayed |-> Registered(event_callbacks)]
  /\ auto_save = NoWorker

\* one step of the for loop: the element at the position, if the list has
\* one, is bound to callback and the position moves on; the body calls
\* on_client_changes when the callback has it.  Past the end the loop ends.
HandleNextCallback ==
  /\ threads[1].pc = "iterate"
  /\ LET index == threads[1].index
     IN IF index < Len(event_callbacks)
        THEN LET callback == event_callbacks[index + 1]
             IN /\ threads' = [threads EXCEPT ![1].index = index + 1]
                /\ monitor_log' =
                     [monitor_log EXCEPT !.calls =
                        IF "on_client_changes" \in callback.methods
                        THEN Append(@, callback)
                        ELSE @]
        ELSE /\ threads' = [threads EXCEPT ![1].pc = "done"]
             /\ UNCHANGED monitor_log
  /\ UNCHANGED <<performance_optimization, event_monitor_running,
                 event_callbacks, auto_save, clock>>
  /\ UNCHANGED <<snapVars, storeVars>>

\* manager.add_event_callback(callback) while the event is dispatched
AddDuringDispatch ==
  /\ threads[1].pc = "iterate"
  /\ \E callback \in RegistryCallbacks \ Registered(event_callbacks) :
       event_callbacks' = Append(event_callbacks, callback)
  /\ UNCHANGED <<performance_optimization, event_monitor_running, threads,
                 monitor_log, auto_save, clock>>
  /\ UNCHANGED <<snapVars, storeVars>>

\* manager.remove_event_callback(callback) while the event is dispatched
RemoveDuringDispatch ==
  /\ threads[1].pc = "iterate"
  /\ \E callback \in Registered(event_callbacks) :
       /\ event_callbacks' = ListRemove(event_callbacks, callback)
       /\ monitor_log' = [monitor_log EXCEPT !.stayed = @ \ {callback}]
  /\ UNCHANGED <<performance_optimization, event_monitor_running, threads,
                 auto_save, clock>>
  /\ UNCHANGED <<snapVars, storeVars>>

NextRegistry ==
  \/ HandleNextCallback
  \/ AddDuringDispatch
  \/ RemoveDuringDispatch

SpecRegistry == InitRegistry /\ [][NextRegistry]_vars

(***************************************************************************)
(* _validate_state_checksums on snapshots whose stored checksum map is not *)
(* the one generate_validation_checksums gives: the caller, or the file    *)
(* the snapshot was loaded from, put another map in the field.             *)
(***************************************************************************)
\* the maps put in place of the generated one: an entry left out, an entry
\* with the digest of other data, no entry at all, no map
StoredMaps(checksums) ==
  {PyDict(Without(checksums.v, k)) : k \in DOMAIN checksums.v}
    \cup {PyDict((k :> _generate_state_checksum(PyStr("other"))) @@ checksums.v) :
            k \in DOMAIN checksums.v}
    \cup {EmptyDict, PyNone}

\* state.validation_checksums = stored
SetStoredChecksums ==
  /\ snap # PyNone
  /\ prov.tampered = ""
  /\ \E stored \in StoredMaps(generate_validation_checksums(snap)) :
       snap' = [snap EXCEPT !.validation_checksums = stored]
  /\ prov' = [prov EXCEPT !.tampered = "validation_checksums"]
  /\ out' = NoOut
  /\ UNCHANGED <<env, clock, artifact, saved>>
  /\ UNCHANGED storeVars
  /\ UNCHANGED workerVars

NextChecksums ==
  \/ CaptureState
  \/ SetStoredChecksums
  \/ ValidateState

SpecChecksums == InitSnap /\ [][NextChecksums]_vars

(***************************************************************************)
(* quantum-state-config.py: the module-level functions and the global      *)
(* QUANTUM_CONFIG they share.  job.files maps each configuration directory *)
(* to the content of its quantum-state-config.json; result is              *)
(* QUANTUM_CONFIG.  No QUANTUM_* environment variable is set and no legacy *)
(* configuration file exists.                                              *)
(***************************************************************************)
\* config.validate(), on the fields of the model: the other fields it tests
\* have their defaults
validate(config) ==
  /\ config.core.auto_save_interval.t = "int"
  /\ config.core.auto_save_interval.v >= 10

\* QuantumConfigManager._load_from_file
_load_from_file(content) ==
  IF content = Absent \/ content = Garbage THEN PyNone ELSE JsonLoads(content)

\* QuantumConfigManager(config_dir).load_configuration()
load_configuration(content) ==
  LET file_config == _load_from_file(content)
      config == IF Truthy(file_config)
                THEN merge_with(QuantumConfiguration, file_config)
                ELSE QuantumConfiguration
  IN IF validate(config) THEN config ELSE QuantumConfiguration

\* self.config_dir of QuantumConfigManager(config_dir)
ConfigDir(config_dir) == IF config_dir = PyNone THEN "home" ELSE config_dir.v

\* the config_dir arguments of the callers
ConfigDirArgs == {PyNone, PyStr("A"), PyStr("B")}

\* the configurations a caller saves
SavedConfigs ==
  {[QuantumConfiguration EXCEPT !.core.auto_save_interval = PyInt(i)] :
     i \in {300, 120, 5}}

\* what a directory's configuration file may hold at the start
ConfigFiles ==
  {Absent,
   JsonDumps(PyDict("core" :> PyDict("auto_save_interval" :> PyInt(600)))),
   JsonDumps(PyDict("performance" :> PyDict("compression_level" :> PyInt(1))))}

InitConfig ==
  /\ env = QuietEnv
  /\ clock = 0
  /\ snap = PyNone
  /\ prov = NoProv
  /\ artifact = Absent
  /\ saved = PyNone
  /\ out = NoOut
  /\ state_dir = <<>>
  /\ backup_dir = <<>>
  /\ max_backups = 10
  /\ pc = <<>>
  /\ job \in [files : [{ConfigDir(a) : a \in ConfigDirArgs} -> ConfigFiles]]
  /\ result = PyNone
  /\ hist = NoHist
  /\ WorkersIdle

\* load_quantum_config(config_dir)
LoadQuantumConfig ==
  /\ \E config_dir \in ConfigDirArgs :
       LET loaded == IF result = PyNone
                     THEN load_configuration(job.files[ConfigDir(config_dir)])
                     ELSE result
       IN /\ result' = loaded
          /\ out' = [op |-> "load_quantum_config", ret |-> loaded,
                     config_dir |-> config_dir]
  /\ UNCHANGED <<state_dir, backup_dir, max_backups, pc, job, hist>>
  /\ UNCHANGED <<env, clock, snap, prov, artifact, saved>>
  /\ UNCHANGED workerVars

\* save_quantum_config(config, config_dir)
SaveQuantumConfig ==
  /\ \E config \in SavedConfigs, config_dir \in ConfigDirArgs :
       IF validate(config)
       THEN /\ job' = [job EXCEPT !.files[ConfigDir(config_dir)] =
                         JsonDumps(to_dict(config))]
            /\ result' = config
            /\ out' = [op |-> "save_quantum_config", ret |-> PyBool(TRUE)]
       ELSE /\ out' = [op |-> "save_quantum_config", ret |-> PyBool(FALSE)]
            /\ UNCHANGED <<job, result>>
  /\ UNCHANGED <<state_dir, backup_dir, max_backups, pc, hist>>
  /\ UNCHANGED <<env, clock, snap, prov, artifact, saved>>
  /\ UNCHANGED workerVars

\* get_quantum_config()
GetQuantumConfig ==
  /\ LET config == IF result = PyNone
                   THEN load_configuration(job.files[ConfigDir(PyNone)])
                   ELSE result
     IN /\ result' = config
        /\ out' = [op |-> "get_quantum_config", ret |-> config]
  /\ UNCHANGED <<state_dir, backup_dir, max_backups, pc, job, hist>>
  /\ UNCHANGED <<env, clock, snap, prov, artifact, saved>>
  /\ UNCHANGED workerVars

NextConfig ==
  \/ LoadQuantumConfig
  \/ SaveQuantumConfig
  \/ GetQuantumConfig

SpecConfig == InitConfig /\ [][NextConfig]_vars

\* thread t of the monitor is at the given step of _event_monitor_loop
At(t, step) == t \in DOMAIN threads /\ threads[t].pc = step

\* C14: a registered callback that raises does not end the event-monitor
\* loop: the poll in which it raised leaves the running flag as it was and
\* the thread goes on to its sleep, and a sleeping thread polls again unless
\* monitoring is stopped.
CallbackErrorSurvived ==
  /\ [][\A t \in DOMAIN threads :
          (LoopPoll(t) /\ monitor_log'.raised)
          => /\ event_monitor_running' = event_monitor_running
             /\ threads'[t].pc = "sleep"]_vars
  /\ \A t \in 1..MaxThreads :
       (At(t, "sleep") /\ monitor_log.raised)
       ~> (At(t, "poll") \/ ~event_monitor_running)

\* a callback raised in the last poll, and the thread is about to poll again
CallbackErrorSurvivedWitness ==
  /\ monitor_log.raised
  /\ event_monitor_running
  /\ Len(threads) = 1
  /\ threads[1].pc = "poll"

\* C15: a poll invokes every registered callback that handles an event, in
\* registration order and for all three topics, also when one of them raises.
PerCallbackIsolation ==
  monitor_log.polled
  => monitor_log.calls = Dispatch(monitor_log.seen, monitor_log.callbacks)

TopicOf(method) ==
  CASE method = "on_workspace_focus" -> "workspaces"
    [] method = "on_active_window_change" -> "activewindow"
    [] method = "on_client_changes" -> "clients"

\* C16: after the first poll, a callback is invoked for a topic only when
\* that topic differs from what the previous poll saw; a poll that sees the
\* same compositor state as the previous one invokes no callback.
ChangeDetection ==
  (monitor_log.polled /\ monitor_log.had_prev)
  => /\ \A i \in 1..Len(monitor_log.calls) :
          monitor_log.seen[TopicOf(monitor_log.calls[i].method)]
          # monitor_log.prev[TopicOf(monitor_log.calls[i].method)]
     /\ monitor_log.seen = monitor_log.prev => monitor_log.calls = <<>>

\* C17: once the running flag is cleared a monitor thread polls at most once
\* more, and it terminates unless monitoring is started again.
StopObserved ==
  \A t \in 1..MaxThreads :
    /\ []((t \in DOMAIN threads /\ ~event_monitor_running)
          => threads[t].after_stop <= 1)
    /\ (t \in DOMAIN threads /\ ~event_monitor_running)
       ~> (At(t, "done") \/ event_monitor_running)

\* monitoring was stopped, the thread polled once more and then terminated
StopObservedWitness ==
  /\ ~event_monitor_running
  /\ Len(threads) = 1
  /\ threads[1].pc = "done"
  /\ threads[1].after_stop = 1


\* C18: a cycle of the auto-save worker in which capture or save raises does
\* not end the worker: it goes back to its sleep, and after the interval it
\* attempts capture and save again, however many cycles failed before.
AutoSaveResilient ==
  /\ [][(auto_save.pc \in {"cycle", "save"}
          /\ auto_save'.pc \notin {"cycle", "save"}
          /\ auto_save'.last = "failed")
        => auto_save'.pc = "sleep"]_vars
  /\ \A n \in 1..MaxFailed :
       (auto_save.last = "failed" /\ auto_save.failed = n /\ auto_save.pc = "sleep")
       ~> (auto_save.pc = "cycle")

\* the worker attempts a cycle again after two or more failed ones
AutoSaveResilientWitness ==
  /\ auto_save.last = "failed"
  /\ auto_save.failed >= 2
  /\ auto_save.pc = "cycle"


\* C19: with optimization enabled, optimize_state_capture leaves its input
\* as it was (the application contexts, terminal sessions and browser
\* sessions with their nested session data and environment maps), and the
\* snapshot it returns shares no mutable record with the input.
OptimizeLeavesInput ==
  (out.op = "optimize" /\ out.enabled)
  => /\ snap.application_contexts = out.before.application_contexts
     /\ snap.terminal_sessions = out.before.terminal_sessions
     /\ snap.browser_sessions = out.before.browser_sessions
     /\ out.ret # Raised => out.shared = {}

\* the environment-variable maps of a terminal session record
EnvironmentMaps(session) ==
  [process |-> session.v["environment"].v["environment_variables"],
   session |-> session.v["session_data"].v["environment"]]

\* C20: with optimization enabled, every environment-variable map of every
\* terminal session record of the result holds only the essential variables
\* with the values they had, and the result has the records of the input.
TerminalEnvironmentFiltered ==
  (out.op = "optimize" /\ out.enabled /\ out.ret # Raised)
  => /\ \A field \in {"application_contexts", "terminal_sessions", "browser_sessions"} :
          Len(out.ret[field].v) = Len(out.before[field].v)
     /\ \A i \in 1..Len(out.ret.terminal_sessions.v) :
          LET got == EnvironmentMaps(out.ret.terminal_sessions.v[i])
              had == EnvironmentMaps(out.before.terminal_sessions.v[i])
          IN \A m \in DOMAIN got :
               /\ DOMAIN got[m].v = DOMAIN had[m].v \cap EssentialVars
               /\ \A k \in DOMAIN got[m].v : got[m].v[k] = had[m].v[k]


\* C21: any two invocations of capture_quantum_state on one manager return
\* snapshots with different session ids, and the artifacts saved under the
\* default names are as many as the snapshots saved.
SessionIdsUnique ==
  /\ \A i, j \in DOMAIN result :
       i # j => result[i].session_id # result[j].session_id
  /\ \A i \in DOMAIN result :
       LET name == FileName("quantum_state_", result[i].session_id)
           is_saved == \/ pc[result[i].thread] = "idle"
                       \/ \E j \in DOMAIN result :
                            j > i /\ result[j].thread = result[i].thread
       IN is_saved => /\ name \in DOMAIN state_dir
                      /\ state_dir[name].thread = result[i].thread
                      /\ state_dir[name].began = result[i].began


\* C22: main returns 1 whenever the selected mode met a failure (no
\* compatible state, a failed compatibility validation, a legacy file that
\* does not migrate) and 0 only when it met none.
ExitCodes ==
  out.op = "main" => (out.ret = 1 <=> out.failures # {})


\* C23: a save_quantum_state that follows the removal of the state
\* directory or of the backup directory returns the path of an artifact
\* that exists, and both directories exist again.
MissingDirectoriesRecovered ==
  (out.op = "save" /\ out.after_removal)
  => /\ out.ret # Raised
     /\ job.state_dir
     /\ job.backup_dir
     /\ out.ret \in DOMAIN state_dir

\* the value the update dictionary gives to field f of category c, if any
Named(update, c, f) ==
  /\ c \in DOMAIN update.v
  /\ update.v[c].t = "dict"
  /\ f \in DOMAIN update.v[c].v

\* C24: the configuration returned by merge_with has, in every field the
\* update names, the update's value, and in every other field the value the
\* base configuration had.
MergeKeepsOthers ==
  out.op = "merge_with"
  => /\ out.ret.config_version
          = Get(job.update, "config_version", job.base.config_version)
     /\ \A c \in Categories : \A f \in DOMAIN job.base[c] :
          out.ret[c][f] = IF Named(job.update, c, f)
                          THEN job.update.v[c].v[f]
                          ELSE job.base[c][f]

\* C25: a snapshot that passes _validate_state_checksums and that
\* optimize_state_capture, with optimization enabled, turns into a result,
\* gives a result that passes _validate_state_checksums, also after it was
\* saved and loaded.
ChecksumsSurviveOptimize ==
  (/\ out.op = "optimize"
   /\ out.enabled
   /\ out.ret # Raised
   /\ _validate_state_checksums(out.before))
  => /\ _validate_state_checksums(out.ret)
     /\ _validate_state_checksums(load_quantum_state(StateDocument(out.ret)))

\* the monitor threads whose _event_monitor_loop has not returned
RunningLoops == {t \in DOMAIN threads : threads[t].pc # "done"}

\* C26: under every interleaving of start_event_monitoring,
\* stop_event_monitoring and the steps of the loops, at most one
\* event-monitor loop is running.
SingleMonitorLoop == Cardinality(RunningLoops) <= 1

\* the number of times the callback was invoked
Invocations(callback) ==
  Cardinality({i \in DOMAIN monitor_log.calls : monitor_log.calls[i] = callback})

\* C27: when the dispatch of an event has ended, every callback with the
\* handler method that was registered during the whole dispatch was invoked
\* exactly once, whatever was added or removed meanwhile.
DispatchExactlyOnce ==
  threads[1].pc = "done"
  => \A callback \in monitor_log.stayed :
       "on_client_changes" \in callback.methods => Invocations(callback) = 1

\* C28: a save_quantum_state that raises while writing leaves every
\* artifact that was in the state directory with the content it had, so
\* that it loads as the snapshot it held.
FailedSaveKeepsArtifact ==
  [][\A m \in DOMAIN pc :
       (SaveWrite(m) /\ hist'.faults > hist.faults)
       => \A name \in DOMAIN state_dir :
            /\ name \in DOMAIN state_dir'
            /\ state_dir'[name] = state_dir[name]
            /\ load_quantum_state(state_dir'[name])
                 = load_quantum_state(state_dir[name])]_vars

\* C29: _validate_state_checksums returns true only for a snapshot whose
\* stored map holds, for each of the eight components and for "overall",
\* the digest computed anew; a stored map that lacks a component's entry is
\* rejected.
ValidatesOnlyComplete ==
  (out.op = "validate" /\ out.ret = PyBool(TRUE))
  => /\ snap.validation_checksums.t = "dict"
     /\ \A component \in Components \cup {"overall"} :
          /\ component \in DOMAIN snap.validation_checksums.v
          /\ snap.validation_checksums.v[component]
               = generate_validation_checksums(snap).v[component]

\* C30: what load_quantum_config(config_dir) returns has, field by field,
\* the values of the configuration loaded from the directory it was given,
\* whatever directory an earlier call was given.
LoadsGivenDirectory ==
  out.op = "load_quantum_config"
  => to_dict(out.ret)
       = to_dict(load_configuration(job.files[ConfigDir(out.config_dir)]))

====
